---- MODULE Spec2Model ----
(***************************************************************************)
(* ElectriSim-AI: circuit analysis and safety assessment engine.           *)
(*                                                                         *)
(* Numbers are fixed point, because the source computes with IEEE doubles: *)
(*   voltages             in tenths of a volt   (230 V    = 2300)          *)
(*   currents             in milliamperes       (16 A     = 16000)         *)
(*   powers               in tenths of a watt   (1500 W   = 15000)         *)
(*   resistances          in ohms                                          *)
(*   power factor, ratios in hundredths         (0.8      = 80)            *)
(*   arc-flash energy     in hundredths of cal/cm^2                        *)
(*   times                in milliseconds                                  *)
(* A property that is absent from component.properties is the value 0:     *)
(* the source reads every property through `x || default` or `x && ...`,   *)
(* which treat undefined and 0 alike.                                      *)
(***************************************************************************)
EXTENDS Integers, Sequences, FiniteSets, TLC

VARIABLES
  circuit,            \* CircuitSimulator.circuit, the circuit the page shows
  analysis,           \* CircuitSimulator.analysis
  analysisHistory,    \* CircuitAnalysisAgent.analysisHistory
  agentResult,        \* the analysis CircuitAnalysisAgent.analyzeCircuit returned last
  safetyInput,        \* the analysis handed to SafetyAssessmentAgent.assessSafety
  validatedAnalysis,  \* what validateAnalysisValues handed to the detectors and checkers
  detected,           \* the local `hazards` of assessSafety after the six detectors
  safety,             \* the SafetyAssessment returned last
  scorer,             \* inputs and results of the safety scorer when it is driven alone
  client,             \* what a caller of the agent's history methods holds
  pc                  \* "editing", "analysed" or "assessed"

vars == <<circuit, analysis, analysisHistory, agentResult, safetyInput, validatedAnalysis, detected, safety, scorer, client, pc>>

Null == [null |-> TRUE]

NoId == ""

-----------------------------------------------------------------------------
(* Bounds of the model *)

MaxComponents == 3

MaxConnections == 1

MaxHistory == 2

-----------------------------------------------------------------------------
(* Arithmetic helpers *)

Min(a, b) == IF a < b THEN a ELSE b

Max(a, b) == IF a > b THEN a ELSE b

Abs(a) == IF a < 0 THEN 0 - a ELSE a

\* floor(a * b / c) for a >= 0, b >= 0, c > 0 without leaving 32 bits
MulDiv(a, b, c) == (a \div c) * b + ((a % c) * b) \div c

RECURSIVE SumSeq(_)
SumSeq(s) == IF s = <<>> THEN 0 ELSE Head(s) + SumSeq(Tail(s))

RECURSIVE SumOver(_, _)
SumOver(f, S) ==
  IF S = {} THEN 0
  ELSE LET x == CHOOSE y \in S : TRUE IN f[x] + SumOver(f, S \ {x})

RECURSIVE MaxOver(_, _)
MaxOver(f, S) ==
  IF S = {} THEN 0
  ELSE LET x == CHOOSE y \in S : TRUE IN Max(f[x], MaxOver(f, S \ {x}))

RECURSIVE Flatten(_)
Flatten(ss) == IF ss = <<>> THEN <<>> ELSE Head(ss) \o Flatten(Tail(ss))

Range(s) == {s[k] : k \in DOMAIN s}

\* map lookup `m[id] || 0`
Get(m, id) == IF id \in DOMAIN m THEN m[id] ELSE 0

\* Number.prototype.toFixed(2) of a current held in mA: hundredths of an ampere, rounded
ToFixed2Current(i) == (i + 5) \div 10

\* toFixed(2) of a voltage or a power held in tenths: the whole part and the two decimals
ToFixed2Tenths(x) == <<x \div 10, (x % 10) * 10>>

-----------------------------------------------------------------------------
(* Domain model *)

NoProps ==
  [powerConsumption |-> 0, operatingVoltage |-> 0, powerFactor |-> 0,
   tripCurrent |-> 0, fuseRating |-> 0, currentRating |-> 0,
   voltageRating |-> 0, powerRating |-> 0, turnsRatio |-> 0, primaryVoltage |-> 0]

Component(id, type, value, props) ==
  [id |-> id, type |-> type, value |-> value, properties |-> props @@ NoProps]

Connection(id, from, to) == [id |-> id, from |-> from, to |-> to]

applianceTypes ==
  {"fan", "light", "tv", "ac", "motor", "heater", "refrigerator", "washing-machine",
   "microwave", "ups", "inverter", "dishwasher", "water-heater", "electric-stove",
   "electric-oven", "heat-pump", "electric-boiler"}

protectionDeviceTypes ==
  {"mcb", "rccb", "fuse", "gfci", "afci", "spd", "surge-protector", "two-way-switch", "switch"}

IsPowerSource(c) == c.type = "battery" \/ c.type = "socket"

IsAppliance(c) == c.type \in applianceTypes

IsProtectionDevice(c) == c.type \in protectionDeviceTypes

IsJunction(c) == c.type = "junction"

Filter(s, Test(_)) == SelectSeq(s, Test)

\* ids of a component list, in order of first occurrence (key order of a JS object)
RECURSIVE KeyOrder(_, _)
KeyOrder(s, seen) ==
  IF s = <<>> THEN <<>>
  ELSE IF Head(s).id \in seen THEN KeyOrder(Tail(s), seen)
       ELSE <<Head(s).id>> \o KeyOrder(Tail(s), seen \cup {Head(s).id})

IdsOf(s) == {s[k].id : k \in DOMAIN s}

\* the last element of s with the given id: the one whose assignment survives a forEach
LastWithId(s, id) == s[CHOOSE k \in DOMAIN s : s[k].id = id /\ \A j \in DOMAIN s : s[j].id = id => j <= k]

Issue(id, type, severity, componentId, message, recommendation) ==
  [id |-> id, type |-> type, severity |-> severity, componentId |-> componentId,
   message |-> message, recommendation |-> recommendation]

-----------------------------------------------------------------------------
(* ElectricalCalculations *)

SameSign(a, b) == (a < 0) = (b < 0)

\* voltage * current * powerFactor, powerFactor = 1
calculatePower(voltage, current) ==
  IF SameSign(voltage, current)
    THEN MulDiv(Abs(current), Abs(voltage), 1000)
    ELSE 0 - MulDiv(Abs(current), Abs(voltage), 1000)

calculateGroundFaultCurrent(voltage, resistance) ==
  IF resistance > 0 THEN MulDiv(voltage, 100, resistance) ELSE 0

FourPiD2 == 26268

\* 1.732 * V * Isc * t / (4 * pi * d^2), d = 45.72 cm; 4 * pi * d^2 = 26267.6
calculateArcFlashEnergy(voltage, shortCircuitCurrent, clearingTime) ==
  MulDiv(MulDiv(MulDiv(shortCircuitCurrent, voltage, 1000), 1732, 100000), clearingTime, FourPiD2)

DefaultVoltage == 2300

metadataVoltageOf(c) == IF c.metadata.voltage > 0 THEN c.metadata.voltage ELSE DefaultVoltage

sourceVoltageOf(c) ==
  LET powerSources == Filter(c.components, IsPowerSource)
      valid == {k \in DOMAIN powerSources : powerSources[k].value > 0}
  IN IF valid # {}
       THEN powerSources[CHOOSE k \in valid : \A j \in valid : k <= j].value
       ELSE metadataVoltageOf(c)

DefaultPowerFactor == 80

\* Step 2: current of one appliance; a negative quotient is replaced by 0
applianceCurrent(app, sourceVoltage, isThreePhase) ==
  LET appPower == app.properties.powerConsumption
      appVoltage == IF app.properties.operatingVoltage # 0 THEN app.properties.operatingVoltage ELSE sourceVoltage
      appPowerFactor == IF app.properties.powerFactor # 0 THEN app.properties.powerFactor ELSE DefaultPowerFactor
      single == MulDiv(MulDiv(appPower, 100, Abs(appPowerFactor)), 1000, Abs(appVoltage))
  IN IF appPower > 0 /\ SameSign(appVoltage, appPowerFactor)
       THEN (IF isThreePhase THEN MulDiv(single, 1000, 1732) ELSE single)
       ELSE 0

applianceVoltage(app, sourceVoltage) ==
  IF app.properties.operatingVoltage # 0 THEN app.properties.operatingVoltage ELSE sourceVoltage

DefaultTripCurrent == 16000

MaxValidVoltage == 10000

MaxValidCurrent == 10000000

MaxValidPower == 100000000

MinFlaggedVoltage == -1000

MinFlaggedCurrent == -100000

MinFlaggedPower == -10000

VoltageFlagged(v) == v > MaxValidVoltage \/ v < MinFlaggedVoltage

CurrentFlagged(i) == i > MaxValidCurrent \/ i < MinFlaggedCurrent

PowerFlagged(p) == p > MaxValidPower \/ p < MinFlaggedPower

Clamp(x, hi) == Max(0, Min(hi, x))

-----------------------------------------------------------------------------
(* ElectricalCalculations.analyzeCircuit *)

Analysis(voltages, currents, power, totalPower, efficiency, issues) ==
  [voltages |-> voltages, currents |-> currents, power |-> power,
   totalPower |-> totalPower, efficiency |-> efficiency, issues |-> issues]

EmptyMap == [id \in {} |-> 0]

noPowerSourceIssue ==
  Issue(<<"no-power-source">>, "error", "critical", NoId,
        <<"No power source found in circuit">>, <<"Add a battery or power source to the circuit">>)

\* variant: the early return reports the efficiency the main path starts from
noPowerSourceAnalysis_Efficiency100(c) ==
  Analysis(EmptyMap, EmptyMap, EmptyMap, 0, 100, <<noPowerSourceIssue>>)

\* the early return taken when the circuit has no battery and no socket
noPowerSourceAnalysis(c) ==
  Analysis(EmptyMap, EmptyMap, EmptyMap, 0, 0, <<noPowerSourceIssue>>)

appliancesOf(c) == Filter(c.components, IsAppliance)

\* applianceCurrents[app.id] = appCurrent: the last appliance of an id wins
applianceCurrentsOf(c) ==
  LET appliances == appliancesOf(c)
  IN [id \in IdsOf(appliances) |->
        applianceCurrent(LastWithId(appliances, id), sourceVoltageOf(c), c.metadata.phase = "three")]

totalCurrentOf(c) ==
  LET applianceCurrents == applianceCurrentsOf(c)
  IN SumOver(applianceCurrents, DOMAIN applianceCurrents)

totalLoadOf(c) ==
  LET appliances == appliancesOf(c)
  IN SumSeq([k \in DOMAIN appliances |-> appliances[k].properties.powerConsumption])

VIP(v, i, p) == [v |-> v, i |-> i, p |-> p]

\* variant: a source is given a current of 200 A and the power that goes with it
sourceValues_Loaded(source, sourceVoltage) ==
  VIP(IF source.value > 0 THEN source.value ELSE sourceVoltage, 200000,
      calculatePower(IF source.value > 0 THEN source.value ELSE sourceVoltage, 200000))

\* Step 1: a source's own value if positive, else the circuit-wide source voltage
sourceValues(source, sourceVoltage) ==
  VIP(IF source.value > 0 THEN source.value ELSE sourceVoltage, 0, 0)

applianceValues(app, c) ==
  VIP(applianceVoltage(app, sourceVoltageOf(c)),
      applianceCurrent(app, sourceVoltageOf(c), c.metadata.phase = "three"),
      app.properties.powerConsumption)

\* Step 4: protection devices pass the voltage through and carry the total current
deviceValues(device, sourceVoltage, totalCurrent) ==
  IF device.type \in {"two-way-switch", "switch"}
    THEN VIP(sourceVoltage, totalCurrent, calculatePower(sourceVoltage, totalCurrent \div 100))
  ELSE IF device.type \in {"gfci", "afci", "surge-protector"}
    THEN VIP(sourceVoltage, Min(totalCurrent, 2000), calculatePower(sourceVoltage, Min(totalCurrent, 2000)))
  ELSE VIP(sourceVoltage, totalCurrent, calculatePower(sourceVoltage, totalCurrent))

mcbRatingOf(device) ==
  IF device.properties.tripCurrent # 0 THEN device.properties.tripCurrent ELSE DefaultTripCurrent

fuseRatingOf(device) ==
  IF device.properties.fuseRating # 0 THEN device.properties.fuseRating ELSE DefaultTripCurrent

\* variant: the device trips at its rating
Exceeds_AtRating(current, rating) == current >= rating

Exceeds(current, rating) == current > rating

CeilDiv(a, b) == (a + b - 1) \div b

\* Math.ceil(totalCurrent * 1.25), in amperes
recommendedRating(totalCurrent) == (totalCurrent \div 4000) * 5 + CeilDiv((totalCurrent % 4000) * 5, 4000)

deviceIssues(device, totalCurrent) ==
  IF device.type = "mcb" /\ Exceeds(totalCurrent, mcbRatingOf(device))
    THEN <<Issue(<<"mcb-overcurrent", device.id>>, "error", "critical", device.id,
                 <<"MCB will trip", ToFixed2Current(totalCurrent), mcbRatingOf(device)>>,
                 <<"Use MCB with rating", recommendedRating(totalCurrent)>>)>>
  ELSE IF device.type = "fuse" /\ Exceeds(totalCurrent, fuseRatingOf(device))
    THEN <<Issue(<<"fuse-overcurrent", device.id>>, "error", "critical", device.id,
                 <<"Fuse will blow", ToFixed2Current(totalCurrent), fuseRatingOf(device)>>,
                 <<"Use fuse with rating", recommendedRating(totalCurrent)>>)>>
  ELSE <<>>

\* Step 5: a junction sums the currents of the appliances wired directly to it
connectedAppliancesOf(junction, c) ==
  LET wired(app) == \E k \in DOMAIN c.connections :
                      \/ c.connections[k].from = junction.id /\ c.connections[k].to = app.id
                      \/ c.connections[k].to = junction.id /\ c.connections[k].from = app.id
  IN Filter(appliancesOf(c), wired)

\* variant: a junction carries the total of all appliance currents
junctionCurrent_Total(junction, c) == totalCurrentOf(c)

junctionCurrent(junction, c) ==
  LET connected == connectedAppliancesOf(junction, c)
  IN SumSeq([k \in DOMAIN connected |-> Get(applianceCurrentsOf(c), connected[k].id)])

junctionValues(junction, c) ==
  VIP(sourceVoltageOf(c), junctionCurrent(junction, c),
      calculatePower(sourceVoltageOf(c), junctionCurrent(junction, c)))

DefaultResistance == 1000

MaxResistance == 1000000

\* variant: a value outside (0, 10^6) is clamped into the range
safeResistanceOf_Clamped(component) ==
  IF component.value <= 0 THEN 1
  ELSE IF component.value >= MaxResistance THEN MaxResistance - 1 ELSE component.value

safeResistanceOf(component) ==
  IF component.value > 0 /\ component.value < MaxResistance THEN component.value ELSE DefaultResistance

resistorCurrent(component, sourceVoltage) == MulDiv(sourceVoltage, 100, safeResistanceOf(component))

\* Step 6: every remaining type follows one fixed formula
otherValues(component, sourceVoltage, totalCurrent) ==
  LET turnsRatio == IF component.properties.turnsRatio # 0 THEN component.properties.turnsRatio ELSE 100
      primaryVoltage == IF component.properties.primaryVoltage # 0
                          THEN component.properties.primaryVoltage ELSE sourceVoltage
      secondaryVoltage == MulDiv(primaryVoltage, 100, turnsRatio)
  IN CASE component.type \in {"ground", "lightning-rod"} -> VIP(0, 0, 0)
       [] component.type = "voltmeter" -> VIP(sourceVoltage, 1, calculatePower(sourceVoltage, 1))
       [] component.type = "ammeter" -> VIP(1, totalCurrent, calculatePower(1, totalCurrent))
       [] component.type = "wattmeter" ->
            VIP(sourceVoltage, totalCurrent, calculatePower(sourceVoltage, totalCurrent))
       [] component.type = "transformer" ->
            VIP(secondaryVoltage, MulDiv(totalCurrent, turnsRatio, 100),
                calculatePower(secondaryVoltage, MulDiv(totalCurrent, turnsRatio, 100)))
       [] component.type = "resistor" ->
            VIP(sourceVoltage, resistorCurrent(component, sourceVoltage),
                calculatePower(sourceVoltage, resistorCurrent(component, sourceVoltage)))
       [] OTHER -> VIP(sourceVoltage, 0, 0)

otherIssues(component, sourceVoltage) ==
  LET resistorPower == calculatePower(sourceVoltage, resistorCurrent(component, sourceVoltage))
  IN IF component.type = "resistor" /\ component.properties.powerRating # 0
        /\ resistorPower > component.properties.powerRating
       THEN <<Issue(<<"overpower", component.id>>, "warning", "high", component.id,
                    <<"Resistor is exceeding its power rating", component.id>>,
                    <<"Use a resistor with higher power rating", ToFixed2Tenths(resistorPower)>>)>>
       ELSE <<>>

IsOther(c) == ~IsPowerSource(c) /\ ~IsAppliance(c) /\ ~IsProtectionDevice(c) /\ ~IsJunction(c)

\* the values of one id after Steps 1 to 6: the last step that assigns the id decides;
\* Step 6 skips every id of a source, appliance, protection device or junction
calculatedValues(c, id) ==
  LET powerSources == Filter(c.components, IsPowerSource)
      appliances == appliancesOf(c)
      protectionDevices == Filter(c.components, IsProtectionDevice)
      junctions == Filter(c.components, IsJunction)
      others == Filter(c.components, IsOther)
      fromSource == sourceValues(LastWithId(powerSources, id), sourceVoltageOf(c))
  IN IF id \in IdsOf(junctions) THEN junctionValues(LastWithId(junctions, id), c)
     ELSE IF id \in IdsOf(protectionDevices)
       THEN deviceValues(LastWithId(protectionDevices, id), sourceVoltageOf(c), totalCurrentOf(c))
     ELSE IF id \in IdsOf(appliances) THEN applianceValues(LastWithId(appliances, id), c)
     ELSE IF id \in IdsOf(powerSources) THEN fromSource
     ELSE otherValues(LastWithId(others, id), sourceVoltageOf(c), totalCurrentOf(c))

\* Step 7: one id; values the test flags are reported and clamped, the others are kept
validatedVoltage(v) == IF VoltageFlagged(v) THEN Clamp(v, MaxValidVoltage) ELSE v

validatedCurrent(i) == IF CurrentFlagged(i) THEN Clamp(i, MaxValidCurrent) ELSE i

validatedPower(p) == IF PowerFlagged(p) THEN Clamp(p, MaxValidPower) ELSE p

validationIssues(compId, vip) ==
  (IF VoltageFlagged(vip.v)
     THEN <<Issue(<<"invalid-voltage", compId>>, "error", "critical", compId,
                  <<"Invalid voltage calculated", ToFixed2Tenths(vip.v)>>,
                  <<"Check circuit connections and component values">>)>>
     ELSE <<>>)
  \o (IF CurrentFlagged(vip.i)
        THEN <<Issue(<<"invalid-current", compId>>, "error", "critical", compId,
                     <<"Invalid current calculated", ToFixed2Current(vip.i)>>,
                     <<"Check circuit connections and load calculations">>)>>
        ELSE <<>>)
  \o (IF PowerFlagged(vip.p)
        THEN <<Issue(<<"invalid-power", compId>>, "error", "critical", compId,
                     <<"Invalid power calculated", ToFixed2Tenths(vip.p)>>,
                     <<"Check circuit connections and component power ratings">>)>>
        ELSE <<>>)

HighCurrentFloor == 100000

circuitLevelIssues(totalCurrent, efficiency, totalLoad) ==
  (IF totalCurrent > HighCurrentFloor /\ totalCurrent < MaxValidCurrent
     THEN <<Issue(<<"high-current">>, "warning", "high", NoId,
                  <<"High total current", ToFixed2Current(totalCurrent)>>,
                  <<"Consider dividing into multiple circuits">>)>>
     ELSE <<>>)
  \o (IF efficiency < 80 /\ totalLoad > 0 /\ efficiency > 0
        THEN <<Issue(<<"low-efficiency">>, "warning", "medium", NoId,
                     <<"Low circuit efficiency", efficiency>>,
                     <<"Check for power losses and improve power factor">>)>>
        ELSE <<>>)

analyzeCircuit(c) ==
  LET powerSources == Filter(c.components, IsPowerSource)
      protectionDevices == Filter(c.components, IsProtectionDevice)
      others == Filter(c.components, LAMBDA x : IsOther(x) /\ x.id \notin IdsOf(Filter(c.components, LAMBDA y : ~IsOther(y))))
      ids == IdsOf(c.components)
      keys == KeyOrder(c.components, {})
      sourceVoltage == sourceVoltageOf(c)
      totalCurrent == totalCurrentOf(c)
      totalLoad == totalLoadOf(c)
      raw == [id \in ids |-> calculatedValues(c, id)]
      totalPower == totalLoad
      efficiency == IF totalLoad > 0 /\ totalPower > 0
                      THEN Min(100, MulDiv(totalPower, 100, totalLoad)) ELSE 100
      issues ==
        Flatten([k \in DOMAIN protectionDevices |-> deviceIssues(protectionDevices[k], totalCurrent)])
        \o Flatten([k \in DOMAIN others |-> otherIssues(others[k], sourceVoltage)])
        \o Flatten([k \in DOMAIN keys |-> validationIssues(keys[k], raw[keys[k]])])
        \o circuitLevelIssues(totalCurrent, efficiency, totalLoad)
  IN IF powerSources = <<>> THEN noPowerSourceAnalysis(c)
     ELSE Analysis([id \in ids |-> validatedVoltage(raw[id].v)],
                   [id \in ids |-> validatedCurrent(raw[id].i)],
                   [id \in ids |-> validatedPower(raw[id].p)],
                   totalPower, efficiency, issues)

-----------------------------------------------------------------------------
(* CircuitAnalysisAgent *)

\* circuit.components.find(c => c.id === id): the first component of that id, or Null
findComponent(c, id) ==
  IF id \in IdsOf(c.components)
    THEN c.components[CHOOSE k \in DOMAIN c.components :
                        c.components[k].id = id /\ \A j \in DOMAIN c.components : c.components[j].id = id => k <= j]
    ELSE Null

\* variant: every connected component is queued, whatever its type
connectedResistors_AnyType(c, current, visited) ==
  LET connections == Filter(c.connections, LAMBDA conn : conn.from = current.id \/ conn.to = current.id)
      connectedId(conn) == IF conn.from = current.id THEN conn.to ELSE conn.from
      found(conn) == findComponent(c, connectedId(conn))
      pushed(conn) == found(conn) # Null /\ found(conn).id \notin visited
  IN Flatten([k \in DOMAIN connections |->
                IF pushed(connections[k]) THEN <<found(connections[k])>> ELSE <<>>])

\* resistors reached from `current` over one connection and not yet visited, in connection order
connectedResistors(c, current, visited) ==
  LET connections == Filter(c.connections, LAMBDA conn : conn.from = current.id \/ conn.to = current.id)
      connectedId(conn) == IF conn.from = current.id THEN conn.to ELSE conn.from
      found(conn) == findComponent(c, connectedId(conn))
      pushed(conn) == found(conn) # Null /\ found(conn).type = "resistor" /\ found(conn).id \notin visited
  IN Flatten([k \in DOMAIN connections |->
                IF pushed(connections[k]) THEN <<found(connections[k])>> ELSE <<>>])

\* the while loop of buildSeriesGroup; returns the group and the visited set
RECURSIVE buildSeriesGroup(_, _, _, _)
buildSeriesGroup(c, queue, visited, group) ==
  IF queue = <<>> THEN [group |-> group, visited |-> visited]
  ELSE LET current == Head(queue)
       IN IF current.id \in visited THEN buildSeriesGroup(c, Tail(queue), visited, group)
          ELSE buildSeriesGroup(c,
                 Tail(queue) \o connectedResistors(c, current, visited \cup {current.id}),
                 visited \cup {current.id}, Append(group, current))

RECURSIVE findSeriesGroups(_, _, _)
findSeriesGroups(c, resistors, visited) ==
  IF resistors = <<>> THEN <<>>
  ELSE IF Head(resistors).id \in visited THEN findSeriesGroups(c, Tail(resistors), visited)
  ELSE LET built == buildSeriesGroup(c, <<Head(resistors)>>, visited, <<>>)
       IN (IF Len(built.group) > 0 THEN <<built.group>> ELSE <<>>)
          \o findSeriesGroups(c, Tail(resistors), built.visited)

seriesGroupsOf(c) ==
  LET resistors == Filter(c.components, LAMBDA x : x.type = "resistor")
  IN IF Len(resistors) >= 2 THEN findSeriesGroups(c, resistors, {}) ELSE <<>>

detectSeriesParallelConfigurations(c) ==
  LET seriesGroups == seriesGroupsOf(c)
      idsOfGroup(group) == [k \in DOMAIN group |-> group[k].id]
  IN Flatten([g \in DOMAIN seriesGroups |->
       IF Len(seriesGroups[g]) > 1
         THEN <<Issue(<<"series-group", seriesGroups[g][1].id>>, "info", "low", NoId,
                      <<"Series configuration detected", idsOfGroup(seriesGroups[g])>>,
                      <<"Series resistors add their values together">>)>>
         ELSE <<>>])

totalPowerGenerated(c, a) ==
  LET powerSources == Filter(c.components, LAMBDA x : x.type = "battery")
  IN SumSeq([k \in DOMAIN powerSources |-> Get(a.power, powerSources[k].id)])

totalPowerConsumed(c, a) ==
  LET powerConsumers == Filter(c.components, LAMBDA x : x.type = "resistor" \/ x.type = "led")
  IN SumSeq([k \in DOMAIN powerConsumers |-> Get(a.power, powerConsumers[k].id)])

PowerBalanceTolerance == 1

checkPowerBalanceIssues(c, a) ==
  IF Abs(totalPowerGenerated(c, a) - totalPowerConsumed(c, a)) > PowerBalanceTolerance
    THEN <<Issue(<<"power-balance">>, "warning", "medium", NoId,
                 <<"Power balance issue", ToFixed2Tenths(totalPowerGenerated(c, a)),
                   ToFixed2Tenths(totalPowerConsumed(c, a))>>,
                 <<"Check circuit connections and component values">>)>>
    ELSE <<>>

checkPowerBalanceEfficiency(c, a) ==
  IF totalPowerGenerated(c, a) > 0
    THEN MulDiv(Max(0, totalPowerConsumed(c, a)), 100, totalPowerGenerated(c, a))
    ELSE 0

isolatedIssues(c) ==
  LET connectedComponents == {c.connections[k].from : k \in DOMAIN c.connections}
                             \cup {c.connections[k].to : k \in DOMAIN c.connections}
  IN Flatten([k \in DOMAIN c.components |->
       IF c.components[k].id \notin connectedComponents /\ c.components[k].type # "ground"
         THEN <<Issue(<<"isolated", c.components[k].id>>, "warning", "medium", c.components[k].id,
                      <<"Component is not connected to the circuit", c.components[k].id>>,
                      <<"Connect the component or remove it">>)>>
         ELSE <<>>])

detectShortCircuits(c, a) ==
  LET powerSources == Filter(c.components, LAMBDA x : x.type = "battery")
  IN Flatten([k \in DOMAIN powerSources |->
       IF powerSources[k].value > 0 /\ Get(a.currents, powerSources[k].id) > powerSources[k].value * 1000
         THEN <<Issue(<<"short-circuit", powerSources[k].id>>, "error", "critical", powerSources[k].id,
                      <<"Potential short circuit detected near", powerSources[k].id>>,
                      <<"Check for direct connections between positive and negative terminals">>)>>
         ELSE <<>>])

validateCircuitTopology(c, a) == isolatedIssues(c) \o detectShortCircuits(c, a)

\* CircuitAnalysisAgent.analyzeCircuit: the analysis object that is returned and pushed on the history
agentAnalyzeCircuit(c) ==
  LET a == analyzeCircuit(c)
  IN [a EXCEPT !.issues = a.issues \o detectSeriesParallelConfigurations(c)
                            \o checkPowerBalanceIssues(c, a) \o validateCircuitTopology(c, a),
               !.efficiency = checkPowerBalanceEfficiency(c, a)]

\* an array a caller holds: its entries, and whether it is the very array the agent stores
HeldArray(entries, stored) == [entries |-> entries, stored |-> stored]

\* variant: the stored array itself is handed out
getAnalysisHistory_SameArray(history) == HeldArray(history, TRUE)

\* CircuitAnalysisAgent.getAnalysisHistory: [...this.analysisHistory], a new array
getAnalysisHistory(history) == HeldArray(history, FALSE)

\* CircuitAnalysisAgent.clearHistory: this.analysisHistory = []
clearHistory(history) == <<>>

\* CircuitAnalysisAgent.compareAnalyses: the changes over the keys of the first analysis
compareAnalyses(analysis1, analysis2) ==
  [voltageChanges |-> [key \in DOMAIN analysis1.voltages |->
                         Get(analysis2.voltages, key) - analysis1.voltages[key]],
   currentChanges |-> [key \in DOMAIN analysis1.currents |->
                         Get(analysis2.currents, key) - analysis1.currents[key]],
   powerChanges |-> [key \in DOMAIN analysis1.power |->
                       Get(analysis2.power, key) - analysis1.power[key]]]

-----------------------------------------------------------------------------
(* SafetyAssessmentAgent: validation and hazard detectors *)

NECMaxVoltage == 6000

NECMaxCurrent == 100000

OSHAMaxTouchVoltage == 500

NFPAMaxArcFlashEnergy == 120

Hazard(id, type, severity, componentId, description, mitigation) ==
  [id |-> id, type |-> type, severity |-> severity, componentId |-> componentId,
   description |-> description, mitigation |-> mitigation]

InRange(x, hi) == x >= 0 /\ x <= hi

\* power of one component after validation: the declared powerConsumption of an appliance is
\* taken as it is, any other power is kept when it lies in the range and replaced by 0 otherwise
validatedPowerOf(comp, a) ==
  IF comp.type \in applianceTypes /\ comp.properties.powerConsumption # 0
    THEN comp.properties.powerConsumption
    ELSE IF InRange(Get(a.power, comp.id), MaxValidPower) THEN Get(a.power, comp.id) ELSE 0

validateAnalysisValues(a, c) ==
  Analysis([id \in DOMAIN a.voltages |-> IF InRange(a.voltages[id], MaxValidVoltage) THEN a.voltages[id] ELSE 0],
           [id \in DOMAIN a.currents |-> IF InRange(a.currents[id], MaxValidCurrent) THEN a.currents[id] ELSE 0],
           [id \in IdsOf(c.components) |-> validatedPowerOf(LastWithId(c.components, id), a)],
           a.totalPower, a.efficiency, a.issues)

componentOvercurrent(component, a) ==
  IF component.properties.currentRating # 0 /\ Get(a.currents, component.id) # 0
     /\ Get(a.currents, component.id) > component.properties.currentRating
    THEN <<Hazard(<<"component-overcurrent", component.id>>, "overcurrent", "high", component.id,
                  <<"current exceeds rating", component.id,
                    ToFixed2Current(Get(a.currents, component.id)), component.properties.currentRating>>,
                  "Replace with higher rated component or add current limiting")>>
    ELSE <<>>

\* the body of powerSources.forEach: the source check, then the rating check of every component
overcurrentOfSource(source, a, c) ==
  (IF Get(a.currents, source.id) > NECMaxCurrent
     THEN <<Hazard(<<"overcurrent", source.id>>, "overcurrent", "critical", source.id,
                   <<"current exceeds NEC limit", ToFixed2Current(Get(a.currents, source.id)), NECMaxCurrent>>,
                   "Add current limiting devices or reduce load")>>
     ELSE <<>>)
  \o Flatten([k \in DOMAIN c.components |-> componentOvercurrent(c.components[k], a)])

analyzeOvercurrentHazards(a, c) ==
  LET powerSources == Filter(c.components, LAMBDA x : x.type = "battery")
  IN Flatten([k \in DOMAIN powerSources |-> overcurrentOfSource(powerSources[k], a, c)])

accessibleTypes ==
  {"socket", "switch", "two-way-switch", "light", "fan", "tv", "ac", "heater",
   "motor", "washing-machine", "dishwasher", "microwave", "refrigerator",
   "water-heater", "electric-stove", "electric-oven", "heat-pump", "electric-boiler"}

HasType(c, types) == \E k \in DOMAIN c.components : c.components[k].type \in types

overvoltageOfComponent(component, a) ==
  (IF Get(a.voltages, component.id) > NECMaxVoltage
     THEN <<Hazard(<<"overvoltage", component.id>>, "overvoltage", "critical", component.id,
                   <<"voltage exceeds NEC limit", ToFixed2Tenths(Get(a.voltages, component.id)), NECMaxVoltage>>,
                   "Use appropriate voltage rating or add voltage protection")>>
     ELSE <<>>)
  \o (IF component.properties.voltageRating # 0
         /\ Get(a.voltages, component.id) > component.properties.voltageRating
        THEN <<Hazard(<<"component-overvoltage", component.id>>, "overvoltage", "high", component.id,
                      <<"voltage exceeds rating", component.id,
                        ToFixed2Tenths(Get(a.voltages, component.id)), component.properties.voltageRating>>,
                      "Replace with higher voltage rated component")>>
        ELSE <<>>)

\* variant: every type of component counts as accessible
accessibleHighVoltage_AnyType(a, c) ==
  Filter(c.components, LAMBDA x : Get(a.voltages, x.id) > OSHAMaxTouchVoltage)

accessibleHighVoltage(a, c) ==
  Filter(c.components, LAMBDA x : x.type \in accessibleTypes /\ Get(a.voltages, x.id) > OSHAMaxTouchVoltage)

analyzeOvervoltageHazards(a, c) ==
  LET hasProtection == HasType(c, {"gfci", "rccb", "afci"})
  IN Flatten([k \in DOMAIN c.components |-> overvoltageOfComponent(c.components[k], a)])
     \o (IF ~hasProtection /\ Len(accessibleHighVoltage(a, c)) > 0
           THEN <<Hazard(<<"touch-voltage-accessible">>, "overvoltage", "high", NoId,
                         <<"accessible component(s) exceed OSHA touch voltage limit",
                           Len(accessibleHighVoltage(a, c)), OSHAMaxTouchVoltage>>,
                         "Install GFCI/RCCB protection and ensure proper insulation/grounding")>>
           ELSE <<>>)

LowVoltageSupply == 500

\* variant: one floor for every supply
expectedMaxCurrent_Always150(supplyVoltage) == 150000

expectedMaxCurrent(supplyVoltage) == IF supplyVoltage <= LowVoltageSupply THEN 50000 ELSE 150000

isShortCircuit(voltage, current, supplyVoltage) ==
  voltage > 0 /\ voltage <= NECMaxVoltage /\ current > expectedMaxCurrent(supplyVoltage)
  /\ current > voltage * 300

analyzeShortCircuitHazards(a, c) ==
  LET powerSources == Filter(c.components, IsPowerSource)
      supplyVoltage == metadataVoltageOf(c)
      voltageOf(source) == IF Get(a.voltages, source.id) # 0 THEN Get(a.voltages, source.id) ELSE supplyVoltage
      firstOfId(k) == \A j \in 1..(k - 1) : powerSources[j].id # powerSources[k].id
  IN Flatten([k \in DOMAIN powerSources |->
       IF isShortCircuit(voltageOf(powerSources[k]), Get(a.currents, powerSources[k].id), supplyVoltage)
          /\ firstOfId(k)
         THEN <<Hazard(<<"short-circuit", powerSources[k].id>>, "short_circuit", "critical", powerSources[k].id,
                       <<"Potential short circuit detected", ToFixed2Current(Get(a.currents, powerSources[k].id)),
                         ToFixed2Tenths(voltageOf(powerSources[k]))>>,
                       "Add fuses, circuit breakers, or current limiting devices")>>
         ELSE <<>>])

GroundResistance == 1000

GroundFaultLimit == 30

analyzeGroundFaultHazards(a, c) ==
  LET powerSources == Filter(c.components, LAMBDA x : x.type = "battery")
      faultOf(source) == calculateGroundFaultCurrent(Get(a.voltages, source.id), GroundResistance)
  IN (IF ~HasType(c, {"ground"})
        THEN <<Hazard(<<"no-ground">>, "ground_fault", "medium", NoId,
                      <<"No ground connection found in circuit">>, "Add proper grounding for safety")>>
        ELSE <<>>)
     \o (IF HasType(c, {"gfci", "rccb"}) THEN <<>>
         ELSE Flatten([k \in DOMAIN powerSources |->
                IF Get(a.voltages, powerSources[k].id) > 0 /\ Get(a.currents, powerSources[k].id) > 0
                   /\ faultOf(powerSources[k]) > GroundFaultLimit
                  THEN <<Hazard(<<"ground-fault", powerSources[k].id>>, "ground_fault", "high", powerSources[k].id,
                                <<"Ground fault current exceeds safety limit", faultOf(powerSources[k])>>,
                                "Install GFCI protection or improve grounding")>>
                  ELSE <<>>]))

highPowerAppliances ==
  {"ac", "heater", "motor", "washing-machine", "microwave", "dishwasher",
   "water-heater", "electric-stove", "electric-oven", "heat-pump", "electric-boiler",
   "ups", "inverter", "refrigerator"}

thermalProtectionTypes == {"mcb", "rccb", "gfci", "afci", "spd", "surge-protector", "fuse"}

thermalPowerOf(component, a) ==
  IF component.type \in highPowerAppliances /\ component.properties.powerConsumption # 0
    THEN component.properties.powerConsumption ELSE Get(a.power, component.id)

thermalThreshold(component) == IF component.type \in thermalProtectionTypes THEN 1000 ELSE 5000

thermalOfComponent(component, a) ==
  LET power == thermalPowerOf(component, a)
  IN IF power <= 0 \/ power > MaxValidPower THEN <<>>
     ELSE (IF component.properties.powerRating # 0 /\ power > component.properties.powerRating
             THEN <<Hazard(<<"thermal", component.id>>, "thermal", "high", component.id,
                           <<"power exceeds rating", component.id, ToFixed2Tenths(power),
                             component.properties.powerRating>>,
                           "Replace with higher power rated component or add heat sinking")>>
             ELSE <<>>)
          \o (IF component.properties.powerRating = 0 /\ component.type \notin highPowerAppliances
                 /\ power > thermalThreshold(component)
                THEN <<Hazard(<<"thermal-density", component.id>>, "thermal", "medium", component.id,
                              <<"High power dissipation may cause thermal issues", ToFixed2Tenths(power)>>,
                              "Ensure adequate ventilation and heat sinking")>>
                ELSE <<>>)

analyzeThermalHazards(a, c) ==
  Flatten([k \in DOMAIN c.components |-> thermalOfComponent(c.components[k], a)])

ArcFlashVoltageFloor == 500

\* the third argument the detectors pass to calculateArcFlashEnergy: the literal 18
ArcFlashClearingTime == 18000

faultCurrentOf(current) == IF current >= MaxValidCurrent \div 10 THEN MaxValidCurrent ELSE current * 10

arcFlashOfSource(source, a) ==
  LET voltage == Get(a.voltages, source.id)
      current == Get(a.currents, source.id)
      arcFlashEnergy == calculateArcFlashEnergy(voltage, faultCurrentOf(current), ArcFlashClearingTime)
  IN IF InRange(voltage, MaxValidVoltage) /\ InRange(current, MaxValidCurrent)
        /\ voltage > ArcFlashVoltageFloor /\ arcFlashEnergy > NFPAMaxArcFlashEnergy
       THEN <<Hazard(<<"arc-flash", source.id>>, "arc_flash", "critical", source.id,
                     <<"Arc flash energy exceeds NFPA limit", arcFlashEnergy>>,
                     "Use appropriate PPE, maintain safe working distance, or reduce fault current")>>
       ELSE <<>>

analyzeArcFlashHazards(a, c) ==
  LET powerSources == Filter(c.components, IsPowerSource)
  IN Flatten([k \in DOMAIN powerSources |-> arcFlashOfSource(powerSources[k], a)])

\* the hazards in the order the six detectors push them
detectedHazards(a, c) ==
  analyzeOvercurrentHazards(a, c) \o analyzeOvervoltageHazards(a, c)
  \o analyzeShortCircuitHazards(a, c) \o analyzeGroundFaultHazards(a, c)
  \o analyzeThermalHazards(a, c) \o analyzeArcFlashHazards(a, c)

hazardKey(hazard) ==
  <<hazard.type, IF hazard.componentId # NoId THEN hazard.componentId ELSE "global", hazard.description>>

\* variant: no deduplication
uniqueHazardsOf_KeepAll(hazards) == hazards

\* hazardMap: the first hazard of every key, in order of first insertion
uniqueHazardsOf(hazards) ==
  LET first(k) == \A j \in 1..(k - 1) : hazardKey(hazards[j]) # hazardKey(hazards[k])
  IN Flatten([k \in DOMAIN hazards |-> IF first(k) THEN <<hazards[k]>> ELSE <<>>])

-----------------------------------------------------------------------------
(* SafetyAssessmentAgent: compliance, recommendations, score and risk level *)

ComplianceCheck(standard, status, description) ==
  [standard |-> standard, status |-> status, description |-> description]

criticalProtection == <<"mcb", "rccb", "ground">>

recommendedProtection ==
  <<"gfci", "afci", "spd", "surge-protector", "overvoltage-protector", "undervoltage-protector", "emergency-stop">>

missingTypes(c, types) == Filter(types, LAMBDA t : ~HasType(c, {t}))

\* Object.values(map).filter(in range)
validValues(m, hi) == {id \in DOMAIN m : InRange(m[id], hi)}

\* variant: only the voltage is held against the NEC limits
necLimitStatus_VoltageOnly(a) ==
  LET voltageValues == validValues(a.voltages, MaxValidVoltage)
      currentValues == validValues(a.currents, MaxValidCurrent)
      maxVoltage == MaxOver(a.voltages, voltageValues)
  IN IF voltageValues = {} \/ currentValues = {} THEN "warning"
     ELSE IF maxVoltage > NECMaxVoltage THEN "non_compliant"
     ELSE "compliant"

necLimitStatus(a) ==
  LET voltageValues == validValues(a.voltages, MaxValidVoltage)
      currentValues == validValues(a.currents, MaxValidCurrent)
      maxVoltage == MaxOver(a.voltages, voltageValues)
      maxCurrent == MaxOver(a.currents, currentValues)
  IN IF voltageValues = {} \/ currentValues = {} THEN "warning"
     ELSE IF maxVoltage > NECMaxVoltage \/ maxCurrent > NECMaxCurrent THEN "non_compliant"
     ELSE "compliant"

necLimitDescription(a) ==
  LET voltageValues == validValues(a.voltages, MaxValidVoltage)
      currentValues == validValues(a.currents, MaxValidCurrent)
      maxVoltage == MaxOver(a.voltages, voltageValues)
      maxCurrent == MaxOver(a.currents, currentValues)
  IN IF voltageValues = {} \/ currentValues = {}
       THEN <<<<"Insufficient voltage/current data to fully verify NEC limits">>>>
     ELSE IF maxVoltage > NECMaxVoltage \/ maxCurrent > NECMaxCurrent
       THEN (IF maxVoltage > NECMaxVoltage
               THEN <<<<"Max voltage exceeds NEC limit", maxVoltage, NECMaxVoltage>>>> ELSE <<>>)
            \o (IF maxCurrent > NECMaxCurrent
                  THEN <<<<"Max current exceeds NEC limit", ToFixed2Current(maxCurrent), NECMaxCurrent>>>> ELSE <<>>)
     ELSE <<<<"Voltage and current within NEC limits", maxVoltage, ToFixed2Current(maxCurrent)>>>>

checkNECCompliance(a, c) ==
  LET missingCritical == missingTypes(c, criticalProtection)
      missingRecommended == missingTypes(c, recommendedProtection)
      status == IF missingCritical # <<>> THEN "non_compliant"
                ELSE IF missingRecommended # <<>> /\ necLimitStatus(a) # "non_compliant" THEN "warning"
                ELSE necLimitStatus(a)
      protectionPart == IF missingCritical # <<>> THEN <<"Missing critical protection", missingCritical>>
                        ELSE IF missingRecommended # <<>> THEN <<"Consider adding protection", missingRecommended>>
                        ELSE <<"All critical protection devices present">>
  IN ComplianceCheck("NEC", status, Append(necLimitDescription(a), protectionPart))

\* variant: missing voltage data passes as compliant
checkOSHACompliance_NoDataCompliant(a, c) ==
  LET voltageValues == validValues(a.voltages, MaxValidVoltage)
      maxVoltage == MaxOver(a.voltages, voltageValues)
  IN IF voltageValues # {} /\ maxVoltage > OSHAMaxTouchVoltage
       THEN ComplianceCheck("OSHA", "warning",
                            <<<<"Touch voltage exceeds OSHA recommended limit", maxVoltage, OSHAMaxTouchVoltage>>>>)
     ELSE ComplianceCheck("OSHA", "compliant",
                          <<<<"Touch voltage within OSHA safe limit", 0, OSHAMaxTouchVoltage>>>>)

checkOSHACompliance(a, c) ==
  LET voltageValues == validValues(a.voltages, MaxValidVoltage)
      maxVoltage == MaxOver(a.voltages, voltageValues)
  IN IF voltageValues = {}
       THEN ComplianceCheck("OSHA", "warning", <<<<"Touch voltage data unavailable">>>>)
     ELSE IF maxVoltage > OSHAMaxTouchVoltage
       THEN ComplianceCheck("OSHA", "warning",
                            <<<<"Touch voltage exceeds OSHA recommended limit", maxVoltage, OSHAMaxTouchVoltage>>>>)
     ELSE ComplianceCheck("OSHA", "compliant",
                          <<<<"Touch voltage within OSHA safe limit", maxVoltage, OSHAMaxTouchVoltage>>>>)

\* maxArcFlashEnergy of checkNFPACompliance: batteries only, the source current itself
nfpaMaxArcFlashEnergy(a, c) ==
  LET powerSources == Filter(c.components, LAMBDA x : x.type = "battery")
      energyOf(source) ==
        IF Get(a.voltages, source.id) > ArcFlashVoltageFloor
          THEN calculateArcFlashEnergy(Get(a.voltages, source.id), Get(a.currents, source.id), ArcFlashClearingTime)
          ELSE 0
      energies == [k \in DOMAIN powerSources |-> energyOf(powerSources[k])]
  IN MaxOver(energies, DOMAIN energies)

checkNFPACompliance(a, c) ==
  LET powerSources == Filter(c.components, LAMBDA x : x.type = "battery")
      maxArcFlashEnergy == nfpaMaxArcFlashEnergy(a, c)
  IN IF Len(powerSources) = 0
       THEN ComplianceCheck("NFPA", "warning", <<<<"No primary power sources detected">>>>)
     ELSE IF maxArcFlashEnergy = 0
       THEN ComplianceCheck("NFPA", "warning", <<<<"Arc flash energy could not be calculated">>>>)
     ELSE IF maxArcFlashEnergy > NFPAMaxArcFlashEnergy
       THEN ComplianceCheck("NFPA", "non_compliant",
                            <<<<"Arc flash energy exceeds NFPA limit", maxArcFlashEnergy, NFPAMaxArcFlashEnergy>>>>)
     ELSE ComplianceCheck("NFPA", "compliant",
                          <<<<"Arc flash energy within NFPA limit", maxArcFlashEnergy, NFPAMaxArcFlashEnergy>>>>)

complianceOf(a, c) == <<checkNECCompliance(a, c), checkOSHACompliance(a, c), checkNFPACompliance(a, c)>>

generateSafetyRecommendations(hazards, compliance) ==
  [k \in DOMAIN hazards |-> hazards[k].mitigation]
  \o (IF Len(hazards) = 0 THEN <<"Circuit appears safe - continue monitoring">>
      ELSE <<"Review all safety hazards before operation",
             "Consider adding protective devices (fuses, circuit breakers)">>)
  \o (IF \E k \in DOMAIN compliance : compliance[k].status = "non_compliant"
        THEN <<"Address non-compliance issues before operation">> ELSE <<>>)

\* variant: the recommendations are returned as they were pushed
uniqueRecommendationsOf_KeepAll(recommendations) == recommendations

uniqueRecommendationsOf(recommendations) ==
  LET first(k) == \A j \in 1..(k - 1) : recommendations[j] # recommendations[k]
  IN Flatten([k \in DOMAIN recommendations |-> IF first(k) THEN <<recommendations[k]>> ELSE <<>>])

\* the local `hasProtection` of calculateSafetyScore
hasProtectionOf(hazards) ==
  Len(hazards) = 0
  \/ ~\E k \in DOMAIN hazards : hazards[k].type = "short_circuit" /\ hazards[k].severity = "critical"

\* variant: the penalties before they were reduced
hazardPenalty_Unreduced(hazard) ==
  CASE hazard.severity = "critical" -> 30
    [] hazard.severity = "high" -> 20
    [] hazard.severity = "medium" -> 10
    [] hazard.severity = "low" -> 5
    [] OTHER -> 0

hazardPenalty(hazard) ==
  CASE hazard.severity = "critical" -> 25
    [] hazard.severity = "high" -> 15
    [] hazard.severity = "medium" -> 8
    [] hazard.severity = "low" -> 3
    [] OTHER -> 0

compliancePenalty(check) ==
  IF check.status = "non_compliant" THEN 12 ELSE IF check.status = "warning" THEN 3 ELSE 0

\* `score` of calculateSafetyScore before the final clamp
rawSafetyScore(hazards, compliance) ==
  100 + (IF hasProtectionOf(hazards) THEN 20 ELSE 0)
  - SumSeq([k \in DOMAIN hazards |-> hazardPenalty(hazards[k])])
  - SumSeq([k \in DOMAIN compliance |-> compliancePenalty(compliance[k])])

scoreFloor(hazards) == IF hasProtectionOf(hazards) THEN 10 ELSE 0

\* variant: the score is returned without the final clamp
calculateSafetyScore_NoClamp(hazards, compliance) == rawSafetyScore(hazards, compliance)

calculateSafetyScore(hazards, compliance) ==
  Min(100, Max(scoreFloor(hazards), rawSafetyScore(hazards, compliance)))

\* variant: the high tier looks at the hazards only
determineRiskLevel_HazardsOnly(safetyScore, hazards) ==
  LET criticalHazards == Len(Filter(hazards, LAMBDA h : h.severity = "critical"))
      highHazards == Len(Filter(hazards, LAMBDA h : h.severity = "high"))
  IN IF criticalHazards > 0 \/ safetyScore < 30 THEN "critical"
     ELSE IF highHazards > 0 THEN "high"
     ELSE IF safetyScore < 75 THEN "medium"
     ELSE "low"

determineRiskLevel(safetyScore, hazards) ==
  LET criticalHazards == Len(Filter(hazards, LAMBDA h : h.severity = "critical"))
      highHazards == Len(Filter(hazards, LAMBDA h : h.severity = "high"))
  IN IF criticalHazards > 0 \/ safetyScore < 30 THEN "critical"
     ELSE IF highHazards > 0 \/ safetyScore < 50 THEN "high"
     ELSE IF safetyScore < 75 THEN "medium"
     ELSE "low"

\* assessSafety from the point where the detectors and the checkers have run
assessFrom(hazards, compliance) ==
  LET uniqueHazards == uniqueHazardsOf(hazards)
      safetyScore == calculateSafetyScore(uniqueHazards, compliance)
  IN [safetyScore |-> safetyScore,
      hazards |-> uniqueHazards,
      compliance |-> compliance,
      recommendations |-> uniqueRecommendationsOf(generateSafetyRecommendations(uniqueHazards, compliance)),
      riskLevel |-> determineRiskLevel(safetyScore, uniqueHazards)]

assessSafety(a, c) ==
  assessFrom(detectedHazards(validateAnalysisValues(a, c), c), complianceOf(validateAnalysisValues(a, c), c))

-----------------------------------------------------------------------------
(* CircuitSimulator and the page that runs the two agents on its circuit *)

IdNames == <<"c1", "c2", "c3", "c4", "c5", "c6">>

Template(type, value, props) == Component(NoId, type, value, props)

Battery60 == Template("battery", 600, [powerConsumption |-> 0])

Socket == Template("socket", 0, [powerConsumption |-> 0])

Heater == Template("heater", 0, [powerConsumption |-> 36800, powerFactor |-> 100, currentRating |-> 10000])

Mcb == Template("mcb", 0, [tripCurrent |-> 0])

Resistor330 == Template("resistor", 330, [powerRating |-> 3])

Ground == Template("ground", 0, [powerConsumption |-> 0])

AcBig == Template("ac", 0, [powerConsumption |-> 200000000])

FanNegative == Template("fan", 0, [powerConsumption |-> 500, operatingVoltage |-> -500])

Templates == {Battery60, Socket, Heater, Mcb, Resistor330, Ground, AcBig, FanNegative}

ConnectionInputs == {[from |-> "c1", to |-> "c2"], [from |-> "c2", to |-> "zz"]}

Metadatas == {[voltage |-> 2300, phase |-> "single"], [voltage |-> 0, phase |-> "three"]}

Circuit(components, connections, metadata) ==
  [components |-> components, connections |-> connections, metadata |-> metadata]

\* CircuitSimulator.addComponent followed by updateCircuit
addComponent(c, component) == [c EXCEPT !.components = Append(c.components, component)]

\* CircuitSimulator.addConnection
addConnection(c, connection) == [c EXCEPT !.connections = Append(c.connections, connection)]

Init ==
  /\ circuit \in {Circuit(<<>>, <<>>, m) : m \in Metadatas}
  /\ analysis = Null
  /\ analysisHistory = <<>>
  /\ agentResult = Null
  /\ safetyInput = Null
  /\ validatedAnalysis = Null
  /\ detected = Null
  /\ safety = Null
  /\ scorer = Null
  /\ client = Null
  /\ pc = "editing"

AddComponent(t) ==
  /\ pc = "editing"
  /\ Len(circuit.components) < MaxComponents
  /\ circuit' = addComponent(circuit, [t EXCEPT !.id = IdNames[Len(circuit.components) + 1]])
  /\ analysis' = analyzeCircuit(circuit')
  /\ UNCHANGED <<analysisHistory, agentResult, safetyInput, validatedAnalysis, detected, safety, scorer, client, pc>>

AddConnection(e) ==
  /\ pc = "editing"
  /\ Len(circuit.connections) < MaxConnections
  /\ circuit' = addConnection(circuit, Connection(IdNames[Len(circuit.connections) + 1], e.from, e.to))
  /\ analysis' = analyzeCircuit(circuit')
  /\ UNCHANGED <<analysisHistory, agentResult, safetyInput, validatedAnalysis, detected, safety, scorer, client, pc>>

\* circuitAnalysisAgent.analyzeCircuit(circuit) of the page effect
AgentAnalyze ==
  /\ pc = "editing"
  /\ Len(analysisHistory) < MaxHistory
  /\ agentResult' = agentAnalyzeCircuit(circuit)
  /\ analysisHistory' = Append(analysisHistory, agentResult')
  /\ pc' = "analysed"
  /\ UNCHANGED <<circuit, analysis, safetyInput, validatedAnalysis, detected, safety, scorer, client>>

SourceCurrentInputs == {200000}

\* the analyses handed to assessSafety: the agent's own result, or that result with
\* the current of one power source replaced by a measured value
AnalysisInputs ==
  IF agentResult = Null THEN {} ELSE
  {agentResult}
  \cup {[agentResult EXCEPT !.currents = [agentResult.currents EXCEPT ![id] = i]] :
         id \in {x \in DOMAIN agentResult.currents :
                  \E k \in DOMAIN circuit.components :
                    circuit.components[k].id = x /\ IsPowerSource(circuit.components[k])},
         i \in SourceCurrentInputs}

\* variant: the validation writes the clamped values into the analysis it was given
AssessSafety_InPlace(a) ==
  /\ pc = "analysed"
  /\ safetyInput' = validateAnalysisValues(a, circuit)
  /\ validatedAnalysis' = validateAnalysisValues(a, circuit)
  /\ detected' = detectedHazards(validatedAnalysis', circuit)
  /\ safety' = assessSafety(a, circuit)
  /\ pc' = "assessed"
  /\ UNCHANGED <<circuit, analysis, analysisHistory, agentResult, scorer, client>>

\* safetyAssessmentAgent.assessSafety(analysis, circuit); safetyInput is the analysis object
\* of the caller as it stands when the call returns
AssessSafety(a) ==
  /\ pc = "analysed"
  /\ safetyInput' = a
  /\ validatedAnalysis' = validateAnalysisValues(a, circuit)
  /\ detected' = detectedHazards(validatedAnalysis', circuit)
  /\ safety' = assessSafety(a, circuit)
  /\ pc' = "assessed"
  /\ UNCHANGED <<circuit, analysis, analysisHistory, agentResult, scorer, client>>

Next ==
  \/ \E t \in Templates : AddComponent(t)
  \/ \E e \in ConnectionInputs : AddConnection(e)
  \/ AgentAnalyze
  \/ \E a \in AnalysisInputs : AssessSafety(a)

Spec == Init /\ [][Next]_vars

-----------------------------------------------------------------------------
(* The simulator alone, on circuits around the trip boundary of mcb and fuse *)

Light == Template("light", 0, [powerConsumption |-> 230, powerFactor |-> 100])

Heater3681 == Template("heater", 0, [powerConsumption |-> 36810, powerFactor |-> 100])

Mcb16004 == Template("mcb", 0, [tripCurrent |-> 16004])

Fuse == Template("fuse", 0, [fuseRating |-> 0])

Fuse10 == Template("fuse", 0, [fuseRating |-> 10000])

TripTemplates == {Socket, Heater, Heater3681, Light, Mcb, Mcb16004, Fuse, Fuse10}

NextTrip == \E t \in TripTemplates : AddComponent(t)

SpecTrip == Init /\ [][NextTrip]_vars

-----------------------------------------------------------------------------
(* The tail of assessSafety alone, on hazard lists and compliance lists given to it *)

\* the number of hazards added to the list the scorer starts from
MaxHazards == 3

HazardInput(type, severity, componentId) ==
  Hazard(<<type, componentId>>, type, severity, componentId, <<type, severity>>, type)

HazardInputs ==
  {HazardInput("short_circuit", "critical", "c1"), HazardInput("arc_flash", "critical", "c1"),
   HazardInput("overcurrent", "high", "c1"), HazardInput("overcurrent", "high", "c2"),
   HazardInput("overvoltage", "high", NoId), HazardInput("thermal", "high", "c2"),
   HazardInput("ground_fault", "medium", NoId), HazardInput("overvoltage", "medium", NoId),
   HazardInput("thermal", "low", "c1")}

\* the hazard lists the scorer starts from: none, or one medium thermal hazard per component
\* of a six-component circuit
ThermalEach == [k \in 1..Len(IdNames) |-> HazardInput("thermal", "medium", IdNames[k])]

HazardBases == {<<>>, ThermalEach}

ComplianceInput(nec, osha, nfpa) ==
  <<ComplianceCheck("NEC", nec, <<>>), ComplianceCheck("OSHA", osha, <<>>), ComplianceCheck("NFPA", nfpa, <<>>)>>

ComplianceInputs ==
  {ComplianceInput("compliant", "compliant", "compliant"),
   ComplianceInput("non_compliant", "warning", "warning"),
   ComplianceInput("non_compliant", "warning", "non_compliant")}

\* what the scorer was given, what assessSafety returns for it, the `score` local of
\* calculateSafetyScore before its clamp, and the same for the list one hazard shorter
Scorer(hazards, compliance, added, before, steps) ==
  [hazards |-> hazards, compliance |-> compliance, added |-> added, before |-> before, steps |-> steps,
   result |-> assessFrom(hazards, compliance),
   rawScore |-> rawSafetyScore(uniqueHazardsOf(hazards), compliance)]

InitScore ==
  /\ circuit = Circuit(<<>>, <<>>, [voltage |-> 2300, phase |-> "single"])
  /\ analysis = Null
  /\ analysisHistory = <<>>
  /\ agentResult = Null
  /\ safetyInput = Null
  /\ validatedAnalysis = Null
  /\ detected = Null
  /\ safety = Null
  /\ scorer \in {Scorer(hazards, compliance, Null, Null, 0) :
                    hazards \in HazardBases, compliance \in ComplianceInputs}
  /\ client = Null
  /\ pc = "editing"

ScoreHazard(h) ==
  /\ scorer.steps < MaxHazards
  /\ scorer' = Scorer(Append(scorer.hazards, h), scorer.compliance, h,
                       [hazards |-> scorer.result.hazards, rawScore |-> scorer.rawScore],
                       scorer.steps + 1)
  /\ UNCHANGED <<circuit, analysis, analysisHistory, agentResult, safetyInput, validatedAnalysis, detected, safety, client, pc>>

NextScore == \E h \in HazardInputs : ScoreHazard(h)

SpecScore == InitScore /\ [][NextScore]_vars

-----------------------------------------------------------------------------
(* The assessment of circuits that start from a set of protection devices, with supplies of
   12 V to 700 V and measured source currents of 60 A to 5000 A *)

ProtectionIds == <<"p1", "p2", "p3", "p4", "p5", "p6", "p7", "p8", "p9", "p10">>

\* one component of every type of the list, without properties
OneOfEach(types) == [k \in DOMAIN types |-> Component(ProtectionIds[k], types[k], 0, NoProps)]

CircuitBases ==
  {<<>>, OneOfEach(criticalProtection), OneOfEach(criticalProtection \o recommendedProtection)}

Battery12 == Template("battery", 120, [powerConsumption |-> 0])

Battery700 == Template("battery", 7000, [powerConsumption |-> 0])

AssessTemplates == {Battery12, Battery60, Battery700, Socket, Heater, Ground}

AssessMetadatas == {[voltage |-> 2300, phase |-> "single"], [voltage |-> 240, phase |-> "single"]}

MeasuredCurrentInputs == {60000, 200000, 5000000}

\* the components added to the circuit after the ones it started from
AddedTo(c) == Filter(c.components, LAMBDA x : x.id \in Range(IdNames))

InitAssess ==
  /\ circuit \in {Circuit(base, <<>>, m) : base \in CircuitBases, m \in AssessMetadatas}
  /\ analysis = Null
  /\ analysisHistory = <<>>
  /\ agentResult = Null
  /\ safetyInput = Null
  /\ validatedAnalysis = Null
  /\ detected = Null
  /\ safety = Null
  /\ scorer = Null
  /\ client = Null
  /\ pc = "editing"

AddLoad(t) ==
  /\ pc = "editing"
  /\ Len(AddedTo(circuit)) < MaxComponents
  /\ circuit' = addComponent(circuit, [t EXCEPT !.id = IdNames[Len(AddedTo(circuit)) + 1]])
  /\ analysis' = analyzeCircuit(circuit')
  /\ UNCHANGED <<analysisHistory, agentResult, safetyInput, validatedAnalysis, detected, safety, scorer, client, pc>>

\* the analyses handed to assessSafety: the agent's own result, or that result with
\* the current of one power source replaced by a measured value
MeasuredInputs ==
  IF agentResult = Null THEN {} ELSE
  {agentResult}
  \cup {[agentResult EXCEPT !.currents = [agentResult.currents EXCEPT ![id] = i]] :
         id \in {x \in DOMAIN agentResult.currents :
                  \E k \in DOMAIN circuit.components :
                    circuit.components[k].id = x /\ IsPowerSource(circuit.components[k])},
         i \in MeasuredCurrentInputs}

NextAssess ==
  \/ \E t \in AssessTemplates : AddLoad(t)
  \/ AgentAnalyze
  \/ \E a \in MeasuredInputs : AssessSafety(a)

SpecAssess == InitAssess /\ [][NextAssess]_vars

-----------------------------------------------------------------------------
(* One CircuitAnalysisAgent and a caller of its four public methods *)

\* the circuits the caller has analysed
HistoryCircuits ==
  {Circuit(components, <<>>, [voltage |-> 2300, phase |-> "single"]) :
     components \in {<<[Battery60 EXCEPT !.id = "c1"]>>,
                     <<[Battery60 EXCEPT !.id = "c1"], [Heater EXCEPT !.id = "c2"]>>,
                     <<[Socket EXCEPT !.id = "c1"], [Heater EXCEPT !.id = "c2"]>>}}

\* what the caller holds: the analyses analyzeCircuit returned since the last clearHistory,
\* the array getAnalysisHistory returned last, the result of the last compareAnalyses
Client(returned, copy, comparison) == [returned |-> returned, copy |-> copy, comparison |-> comparison]

InitHistory ==
  /\ circuit = Circuit(<<>>, <<>>, [voltage |-> 2300, phase |-> "single"])
  /\ analysis = Null
  /\ analysisHistory = <<>>
  /\ agentResult = Null
  /\ safetyInput = Null
  /\ validatedAnalysis = Null
  /\ detected = Null
  /\ safety = Null
  /\ scorer = Null
  /\ client = Client(<<>>, Null, Null)
  /\ pc = "editing"

\* agent.analyzeCircuit(c)
AnalyzeCall(c) ==
  /\ Len(analysisHistory) < MaxHistory
  /\ circuit' = c
  /\ agentResult' = agentAnalyzeCircuit(c)
  /\ analysisHistory' = Append(analysisHistory, agentResult')
  /\ client' = [client EXCEPT !.returned = Append(@, agentResult')]
  /\ UNCHANGED <<analysis, safetyInput, validatedAnalysis, detected, safety, scorer, pc>>

\* agent.getAnalysisHistory()
GetHistory ==
  /\ client' = [client EXCEPT !.copy = getAnalysisHistory(analysisHistory)]
  /\ UNCHANGED <<circuit, analysis, analysisHistory, agentResult, safetyInput, validatedAnalysis, detected, safety, scorer, pc>>

Reverse(s) == [k \in DOMAIN s |-> s[Len(s) + 1 - k]]

\* what the caller does to the array it holds: pop() or reverse()
Modified(entries, how) ==
  IF how = "pop" THEN SubSeq(entries, 1, Len(entries) - 1) ELSE Reverse(entries)

\* the caller modifies the array it was given; the agent's array changes with it when the two
\* are one array
ModifyCopy(how) ==
  /\ client.copy # Null
  /\ Len(client.copy.entries) >= 1
  /\ client' = [client EXCEPT !.copy.entries = Modified(@, how)]
  /\ analysisHistory' = IF client.copy.stored THEN Modified(client.copy.entries, how) ELSE analysisHistory
  /\ UNCHANGED <<circuit, analysis, agentResult, safetyInput, validatedAnalysis, detected, safety, scorer, pc>>

\* agent.compareAnalyses(first, second) on two analyses the caller holds
Compare(j, k) ==
  /\ client' = [client EXCEPT !.comparison = compareAnalyses(client.returned[j], client.returned[k])]
  /\ UNCHANGED <<circuit, analysis, analysisHistory, agentResult, safetyInput, validatedAnalysis, detected, safety, scorer, pc>>

\* agent.clearHistory(): the agent takes a new, empty array; an array handed out earlier is
\* no longer the stored one
ClearHistory ==
  /\ analysisHistory' = clearHistory(analysisHistory)
  /\ client' = [client EXCEPT !.returned = <<>>,
                              !.copy = IF @ = Null THEN Null ELSE HeldArray(@.entries, FALSE)]
  /\ UNCHANGED <<circuit, analysis, agentResult, safetyInput, validatedAnalysis, detected, safety, scorer, pc>>

NextHistory ==
  \/ \E c \in HistoryCircuits : AnalyzeCall(c)
  \/ GetHistory
  \/ \E how \in {"pop", "reverse"} : ModifyCopy(how)
  \/ \E j, k \in DOMAIN client.returned : Compare(j, k)
  \/ ClearHistory

SpecHistory == InitHistory /\ [][NextHistory]_vars

-----------------------------------------------------------------------------
(* The assessment of loads around the thresholds of the thermal detector: 100 W, 500 W,
   a declared powerRating and 10^7 W *)

Light300 == Template("light", 0, [powerConsumption |-> 3000, powerFactor |-> 100])

Light600 == Template("light", 0, [powerConsumption |-> 6000, powerFactor |-> 100])

HeaterRated == Template("heater", 0, [powerConsumption |-> 36800, powerFactor |-> 100, powerRating |-> 20000])

HeaterHugeRated == Template("heater", 0, [powerConsumption |-> 200000000, powerFactor |-> 100, powerRating |-> 20000])

ThermalTemplates == {Socket, Mcb, Light300, Light600, Heater, HeaterRated, HeaterHugeRated, Resistor330}

NextThermal ==
  \/ \E t \in ThermalTemplates : AddComponent(t)
  \/ AgentAnalyze
  \/ \E a \in AnalysisInputs : AssessSafety(a)

SpecThermal == Init /\ [][NextThermal]_vars

-----------------------------------------------------------------------------
(* Loads added to a circuit of a socket, an mcb and two junctions that is already wired *)

JunctionBase ==
  <<Component("s1", "socket", 0, NoProps), Component("m1", "mcb", 0, NoProps),
    Component("j1", "junction", 0, NoProps), Component("j2", "junction", 0, NoProps)>>

Wire(from, to) == [from |-> from, to |-> to]

\* the connection lists: appliances wired to a junction in either direction, twice, to both
\* junctions, to each other, to the mcb only, and a connection to an id that does not exist
Wirings ==
  {<<>>,
   <<Wire("j1", "c1")>>,
   <<Wire("c1", "j1"), Wire("j1", "c1"), Wire("c2", "j2")>>,
   <<Wire("j1", "c1"), Wire("c2", "j1"), Wire("j2", "c2"), Wire("j2", "c3")>>,
   <<Wire("m1", "c1"), Wire("c1", "c2"), Wire("c2", "j2"), Wire("j1", "zz")>>}

JunctionTemplates == {Light, Light600, Heater, FanNegative, Resistor330}

InitJunction ==
  /\ circuit \in {Circuit(JunctionBase, wiring, m) : wiring \in Wirings, m \in Metadatas}
  /\ analysis = Null
  /\ analysisHistory = <<>>
  /\ agentResult = Null
  /\ safetyInput = Null
  /\ validatedAnalysis = Null
  /\ detected = Null
  /\ safety = Null
  /\ scorer = Null
  /\ client = Null
  /\ pc = "editing"

NextJunction == \E t \in JunctionTemplates : AddLoad(t)

SpecJunction == InitJunction /\ [][NextJunction]_vars

-----------------------------------------------------------------------------
(* The simulator on circuits with resistors, the sample circuit among them *)

\* CircuitSimulator.createSampleCircuit: 9 V battery, 330 ohm resistor rated 0.25 W, LED, ground
createSampleCircuit ==
  Circuit(<<Component("battery-1", "battery", 90, NoProps),
            Component("resistor-1", "resistor", 330, [powerRating |-> 2]),
            Component("led-1", "led", 25, NoProps),
            Component("ground-1", "ground", 0, NoProps)>>,
          <<Connection("conn-1", "battery-1", "resistor-1"),
            Connection("conn-2", "resistor-1", "led-1"),
            Connection("conn-3", "led-1", "ground-1")>>,
          [voltage |-> 90, phase |-> "single"])

\* CircuitSimulator.updateCircuit(c)
UpdateCircuit(c) ==
  /\ pc = "editing"
  /\ circuit' = c
  /\ analysis' = analyzeCircuit(c)
  /\ UNCHANGED <<analysisHistory, agentResult, safetyInput, validatedAnalysis, detected, safety, scorer, client, pc>>

Resistor0 == Template("resistor", 0, [powerRating |-> 0])

Resistor1 == Template("resistor", 1, [powerRating |-> 0])

Resistor2M == Template("resistor", 2000000, [powerRating |-> 0])

ResistorTemplates == {Battery12, Battery60, Socket, Resistor330, Resistor0, Resistor1, Resistor2M}

NextResistor ==
  \/ \E t \in ResistorTemplates : AddComponent(t)
  \/ UpdateCircuit(createSampleCircuit)

SpecResistor == Init /\ [][NextResistor]_vars

-----------------------------------------------------------------------------
(* The CircuitSimulator under all its operations that change the circuit *)

\* variant: the connections of the removed component stay
removeComponent_KeepConnections(c, componentId) ==
  [c EXCEPT !.components = Filter(c.components, LAMBDA x : x.id # componentId)]

\* CircuitSimulator.removeComponent: the new circuit
removeComponent(c, componentId) ==
  [c EXCEPT !.components = Filter(c.components, LAMBDA x : x.id # componentId),
            !.connections = Filter(c.connections, LAMBDA conn : conn.from # componentId /\ conn.to # componentId)]

\* CircuitSimulator.removeConnection: the new circuit
removeConnection(c, connectionId) ==
  [c EXCEPT !.connections = Filter(c.connections, LAMBDA conn : conn.id # connectionId)]

\* CircuitSimulator.updateComponent: { ...c, ...updates } for the components of that id
updateComponent(c, componentId, updates) ==
  [c EXCEPT !.components = [k \in DOMAIN c.components |->
     IF c.components[k].id = componentId THEN updates @@ c.components[k] ELSE c.components[k]]]

SimulatorTemplates == {Battery60, Resistor330}

SimulatorCircuits ==
  {createSampleCircuit, Circuit(<<>>, <<>>, [voltage |-> 2300, phase |-> "single"])}

ComponentIdInputs == {"c1", "resistor-1", "zz"}

ConnectionIdInputs == {"c1", "conn-2"}

UpdateInputs == {[value |-> 120]}

\* the data handed to importCircuit: an export, or an object without a circuit
ImportInputs == {[circuit |-> createSampleCircuit, exportedAt |-> "t"], [exportedAt |-> "t"]}

\* new CircuitSimulator(c)
InitSimulator ==
  /\ circuit \in SimulatorCircuits
  /\ analysis = Null
  /\ analysisHistory = <<>>
  /\ agentResult = Null
  /\ safetyInput = Null
  /\ validatedAnalysis = Null
  /\ detected = Null
  /\ safety = Null
  /\ scorer = Null
  /\ client = Null
  /\ pc = "editing"

RemoveComponent(componentId) ==
  /\ circuit' = removeComponent(circuit, componentId)
  /\ analysis' = analyzeCircuit(circuit')
  /\ UNCHANGED <<analysisHistory, agentResult, safetyInput, validatedAnalysis, detected, safety, scorer, client, pc>>

RemoveConnection(connectionId) ==
  /\ circuit' = removeConnection(circuit, connectionId)
  /\ analysis' = analyzeCircuit(circuit')
  /\ UNCHANGED <<analysisHistory, agentResult, safetyInput, validatedAnalysis, detected, safety, scorer, client, pc>>

UpdateComponent(componentId, updates) ==
  /\ circuit' = updateComponent(circuit, componentId, updates)
  /\ analysis' = analyzeCircuit(circuit')
  /\ UNCHANGED <<analysisHistory, agentResult, safetyInput, validatedAnalysis, detected, safety, scorer, client, pc>>

\* variant: the imported circuit is stored and not analysed
ImportCircuit_NotAnalysed(data) ==
  /\ IF "circuit" \in DOMAIN data
       THEN circuit' = data.circuit /\ UNCHANGED analysis
       ELSE UNCHANGED <<circuit, analysis>>
  /\ client' = [imported |-> data]
  /\ UNCHANGED <<analysisHistory, agentResult, safetyInput, validatedAnalysis, detected, safety, scorer, pc>>

\* CircuitSimulator.importCircuit(data); the caller keeps the data it handed over
ImportCircuit(data) ==
  /\ IF "circuit" \in DOMAIN data
       THEN circuit' = data.circuit /\ analysis' = analyzeCircuit(data.circuit)
       ELSE UNCHANGED <<circuit, analysis>>
  /\ client' = [imported |-> data]
  /\ UNCHANGED <<analysisHistory, agentResult, safetyInput, validatedAnalysis, detected, safety, scorer, pc>>

NextSimulator ==
  \/ \E c \in SimulatorCircuits : UpdateCircuit(c)
  \/ \E t \in SimulatorTemplates : AddComponent(t)
  \/ \E e \in ConnectionInputs : AddConnection(e)
  \/ \E componentId \in ComponentIdInputs : RemoveComponent(componentId)
  \/ \E connectionId \in ConnectionIdInputs : RemoveConnection(connectionId)
  \/ \E componentId \in ComponentIdInputs, updates \in UpdateInputs : UpdateComponent(componentId, updates)
  \/ \E data \in ImportInputs : ImportCircuit(data)

SpecSimulator == InitSimulator /\ [][NextSimulator]_vars

-----------------------------------------------------------------------------
(* The agent on circuits of resistors wired in chains, cycles and self-loops *)

SeriesBase == <<Component("r0", "resistor", 100, NoProps)>>

\* the connection lists: a chain, two chains, a cycle with a self-loop and an id that does
\* not exist, a chain through the second component, every pair wired, the same pair wired
\* three times, and a chain given against the order of the components
SeriesWirings ==
  {<<>>,
   <<Wire("r0", "c1")>>,
   <<Wire("c1", "r0"), Wire("c2", "c3")>>,
   <<Wire("r0", "c1"), Wire("c1", "c2"), Wire("c2", "r0"), Wire("c2", "c2"), Wire("c3", "zz")>>,
   <<Wire("r0", "c2"), Wire("c2", "c3")>>,
   <<Wire("r0", "zz"), Wire("zz", "c1"), Wire("c1", "c1")>>,
   <<Wire("c3", "c2"), Wire("c2", "c1"), Wire("c1", "r0"), Wire("r0", "c3"), Wire("c1", "c3")>>,
   <<Wire("r0", "c1"), Wire("r0", "c1"), Wire("c1", "r0")>>,
   <<Wire("c3", "c1")>>}

SeriesTemplates == {Resistor330, Socket}

InitSeries ==
  /\ circuit \in {Circuit(SeriesBase, wiring, m) : wiring \in SeriesWirings, m \in Metadatas}
  /\ analysis = Null
  /\ analysisHistory = <<>>
  /\ agentResult = Null
  /\ safetyInput = Null
  /\ validatedAnalysis = Null
  /\ detected = Null
  /\ safety = Null
  /\ scorer = Null
  /\ client = Null
  /\ pc = "editing"

NextSeries ==
  \/ \E t \in SeriesTemplates : AddLoad(t)
  \/ AgentAnalyze

SpecSeries == InitSeries /\ [][NextSeries]_vars

-----------------------------------------------------------------------------
(* Properties of the analysis (ElectricalCalculations.analyzeCircuit) *)

HasPowerSource == \E k \in DOMAIN circuit.components : IsPowerSource(circuit.components[k])

Analysed == analysis # Null

IssuesWith(a, id) == {k \in DOMAIN a.issues : a.issues[k].id = id}

CriticalIssues(a) == {k \in DOMAIN a.issues : a.issues[k].severity = "critical"}

\* C1: for a circuit with at least one component, with or without a power source, every
\* component id is a key of voltages, of currents and of power of the analysis
C1_EveryIdIsAKey ==
  (Analysed /\ Len(circuit.components) >= 1) =>
    \A k \in DOMAIN circuit.components :
      /\ circuit.components[k].id \in DOMAIN analysis.voltages
      /\ circuit.components[k].id \in DOMAIN analysis.currents
      /\ circuit.components[k].id \in DOMAIN analysis.power

NoPowerSourceResult(a) ==
  /\ a.totalPower = 0
  /\ a.efficiency = 0
  /\ Cardinality(CriticalIssues(a)) = 1
  /\ \A k \in CriticalIssues(a) : a.issues[k].id = <<"no-power-source">>

\* C2: without a battery and without a socket, the analysis of the simulator and the analysis
\* of the agent have totalPower 0, efficiency 0 and exactly one critical issue, "no-power-source"
C2_NoPowerSource ==
  ~HasPowerSource =>
    /\ Analysed => NoPowerSourceResult(analysis)
    /\ agentResult # Null => NoPowerSourceResult(agentResult)

C2_Witness ==
  /\ ~HasPowerSource
  /\ Len(circuit.components) >= 2
  /\ Analysed
  /\ agentResult # Null
  /\ Len(agentResult.issues) > 1

\* C4: with a power source, every calculated voltage outside 0..1000 V, current outside
\* 0..10000 A and power outside 0..10^7 W, negative values included, has a critical issue
\* naming the component, and the value stored in the analysis lies in the range
C4_OutOfRangeReportedAndClamped ==
  (Analysed /\ HasPowerSource) =>
    \A k \in DOMAIN circuit.components :
      LET id == circuit.components[k].id
          calculated == calculatedValues(circuit, id)
          reported(name) == \E j \in IssuesWith(analysis, <<name, id>>) :
                              analysis.issues[j].severity = "critical" /\ analysis.issues[j].componentId = id
      IN /\ ~InRange(calculated.v, MaxValidVoltage) =>
              reported("invalid-voltage") /\ InRange(analysis.voltages[id], MaxValidVoltage)
         /\ ~InRange(calculated.i, MaxValidCurrent) =>
              reported("invalid-current") /\ InRange(analysis.currents[id], MaxValidCurrent)
         /\ ~InRange(calculated.p, MaxValidPower) =>
              reported("invalid-power") /\ InRange(analysis.power[id], MaxValidPower)

\* the current a protection device sees: the sum of the currents of the appliances
ApplianceCurrentSum ==
  SumSeq([k \in DOMAIN circuit.components |->
            IF circuit.components[k].type \in applianceTypes
              THEN analysis.currents[circuit.components[k].id] ELSE 0])

DeclaredRating(rating) == IF rating = 0 THEN 16000 ELSE rating

Trips(device, name) ==
  \E j \in IssuesWith(analysis, <<name, device.id>>) :
    analysis.issues[j].severity = "critical" /\ analysis.issues[j].componentId = device.id

\* C5: with a power source, an mcb has a critical overcurrent issue exactly when the summed
\* appliance current is strictly greater than its tripCurrent (16 A when it declares none), and
\* a fuse exactly when it is strictly greater than its fuseRating (16 A when it declares none)
C5_TripsIffAboveRating ==
  (Analysed /\ HasPowerSource) =>
    \A k \in DOMAIN circuit.components :
      LET device == circuit.components[k]
      IN /\ device.type = "mcb" =>
              (Trips(device, "mcb-overcurrent")
                 <=> ApplianceCurrentSum > DeclaredRating(device.properties.tripCurrent))
         /\ device.type = "fuse" =>
              (Trips(device, "fuse-overcurrent")
                 <=> ApplianceCurrentSum > DeclaredRating(device.properties.fuseRating))

C5_Witness ==
  /\ Analysed
  /\ HasPowerSource
  /\ \E k \in DOMAIN circuit.components :
        /\ circuit.components[k].type = "mcb"
        /\ ApplianceCurrentSum = DeclaredRating(circuit.components[k].properties.tripCurrent)
        /\ ~Trips(circuit.components[k], "mcb-overcurrent")

-----------------------------------------------------------------------------
(* Properties of the assessment (SafetyAssessmentAgent.assessSafety) *)

Assessed == pc = "assessed"

\* C3: the values the detectors and the checkers receive satisfy, for every component,
\* 0 <= voltage <= 1000 V, 0 <= current <= 10000 A and 0 <= power <= 10^7 W, the power of an
\* appliance that declares a powerConsumption included
C3_ValidatedValuesInRange ==
  Assessed =>
    \A k \in DOMAIN circuit.components :
      LET id == circuit.components[k].id
      IN /\ InRange(Get(validatedAnalysis.voltages, id), MaxValidVoltage)
         /\ InRange(Get(validatedAnalysis.currents, id), MaxValidCurrent)
         /\ InRange(Get(validatedAnalysis.power, id), MaxValidPower)

\* the composite key of a hazard: type, componentId or "global", description
KeyOf(h) == <<h.type, IF h.componentId = NoId THEN "global" ELSE h.componentId, h.description>>

\* C6: no two returned hazards share a key, and of the detected hazards of one key exactly
\* the first one detected is returned
C6_HazardsUniqueFirstKept ==
  Assessed =>
    /\ \A j, k \in DOMAIN safety.hazards :
         KeyOf(safety.hazards[j]) = KeyOf(safety.hazards[k]) => j = k
    /\ \A k \in DOMAIN detected :
         LET first == CHOOSE j \in DOMAIN detected :
                        /\ KeyOf(detected[j]) = KeyOf(detected[k])
                        /\ \A i \in 1..(j - 1) : KeyOf(detected[i]) # KeyOf(detected[k])
         IN Cardinality({j \in DOMAIN safety.hazards : KeyOf(safety.hazards[j]) = KeyOf(detected[k])}) = 1
            /\ \E j \in DOMAIN safety.hazards : safety.hazards[j] = detected[first]
    /\ \A k \in DOMAIN safety.hazards : \E j \in DOMAIN detected : detected[j] = safety.hazards[k]

C6_Witness ==
  /\ Assessed
  /\ Len(safety.hazards) >= 1
  /\ Len(detected) > Len(safety.hazards)

RiskLevels == {"low", "medium", "high", "critical"}

\* C8: for every circuit, also one without components, without a power source or with a
\* connection to a component that does not exist, the analysis of the agent and the assessment
\* after it complete, with a safetyScore in 0..100 and a riskLevel among the four levels
C8_AlwaysAScoreAndARiskLevel ==
  /\ pc = "analysed" => (agentResult # Null /\ agentResult \in AnalysisInputs)
  /\ Assessed => (safety.safetyScore \in 0..100 /\ safety.riskLevel \in RiskLevels)

C8_Witness ==
  /\ Assessed
  /\ ~HasPowerSource
  /\ Len(circuit.components) >= 1
  /\ \E k \in DOMAIN circuit.connections : circuit.connections[k].to \notin IdsOf(circuit.components)
  /\ safety.safetyScore \in 0..100

\* the protection devices of a circuit
ProtectionDevices == {"mcb", "rccb", "fuse", "gfci", "afci", "spd", "surge-protector"}

\* C9: the safetyScore is at most 100, at least 10 when the circuit contains a protection
\* device and at least 0 when it contains none
C9_FloorFollowsProtectionDevices ==
  Assessed =>
    /\ safety.safetyScore <= 100
    /\ safety.safetyScore >= (IF HasType(circuit, ProtectionDevices) THEN 10 ELSE 0)

-----------------------------------------------------------------------------
(* Properties of the scorer (calculateSafetyScore, determineRiskLevel) *)

\* the scorer was given the list it had before with one more hazard, a critical one
CriticalAdded ==
  /\ scorer # Null
  /\ scorer.added # Null
  /\ scorer.added.severity = "critical"
  /\ scorer.result.hazards = Append(scorer.before.hazards, scorer.added)

IsCriticalShortCircuit(h) == h.type = "short_circuit" /\ h.severity = "critical"

HasSeverity(hazards, severity) == \E k \in DOMAIN hazards : hazards[k].severity = severity

\* C10: riskLevel is critical with a critical hazard or a score below 30, otherwise high with
\* a high hazard or a score below 50, otherwise medium with a score below 75, otherwise low
C10_RiskLevelCascade ==
  scorer # Null =>
    LET score == scorer.result.safetyScore
        hazards == scorer.result.hazards
        level == scorer.result.riskLevel
    IN /\ level = "critical" <=> (HasSeverity(hazards, "critical") \/ score < 30)
       /\ level = "high" <=> (~(HasSeverity(hazards, "critical") \/ score < 30)
                               /\ (HasSeverity(hazards, "high") \/ score < 50))
       /\ level = "medium" <=> (~HasSeverity(hazards, "critical") /\ ~HasSeverity(hazards, "high")
                                 /\ score >= 50 /\ score < 75)
       /\ level = "low" <=> (~HasSeverity(hazards, "critical") /\ ~HasSeverity(hazards, "high")
                              /\ score >= 75)

C10_Witness ==
  /\ scorer # Null
  /\ scorer.steps >= 1
  /\ scorer.result.riskLevel = "high"
  /\ ~HasSeverity(scorer.result.hazards, "high")

-----------------------------------------------------------------------------
(* Properties of the compliance checks (checkNECCompliance, checkOSHACompliance,
   checkNFPACompliance) *)

ChecksOf(standard) == {k \in DOMAIN safety.compliance : safety.compliance[k].standard = standard}

StatusOf(standard) == safety.compliance[CHOOSE k \in ChecksOf(standard) : TRUE].status

\* the largest value of a map of the validated analysis, 0 when the map is empty
MaxValidated(m) ==
  IF DOMAIN m = {} THEN 0
  ELSE CHOOSE x \in {m[id] : id \in DOMAIN m} : \A id \in DOMAIN m : m[id] <= x

Lacks(types) == \E t \in types : ~HasType(circuit, {t})

\* C11: there is exactly one NEC check; it is non_compliant exactly when the maximum validated
\* voltage exceeds 600 V, the maximum validated current exceeds 100 A or one of mcb, rccb, ground
\* is missing; otherwise warning when a recommended protection type is missing or there is no
\* voltage or current data; otherwise compliant
C11_NECStatus ==
  Assessed =>
    /\ Cardinality(ChecksOf("NEC")) = 1
    /\ StatusOf("NEC") =
         IF \/ MaxValidated(validatedAnalysis.voltages) > 6000
            \/ MaxValidated(validatedAnalysis.currents) > 100000
            \/ Lacks({"mcb", "rccb", "ground"})
           THEN "non_compliant"
         ELSE IF \/ Lacks({"gfci", "afci", "spd", "surge-protector", "overvoltage-protector",
                           "undervoltage-protector", "emergency-stop"})
                 \/ DOMAIN validatedAnalysis.voltages = {}
                 \/ DOMAIN validatedAnalysis.currents = {}
           THEN "warning"
         ELSE "compliant"

C11_Witness ==
  /\ Assessed
  /\ ~Lacks({"mcb", "rccb", "ground"})
  /\ MaxValidated(validatedAnalysis.voltages) <= 6000
  /\ MaxValidated(validatedAnalysis.currents) > 100000
  /\ StatusOf("NEC") = "non_compliant"

\* C12 as stated: the OSHA check is warning when the maximum voltage exceeds 50 V and
\* compliant in every other case, also when the analysis carries no voltage entry
C12_OSHAStatus ==
  Assessed =>
    StatusOf("OSHA") =
      IF MaxValidated(validatedAnalysis.voltages) > 500 THEN "warning" ELSE "compliant"

\* C12 as amended: the OSHA check is warning when the maximum voltage exceeds 50 V or the
\* analysis carries no voltage entry, and compliant in every other case
C12_OSHAStatusOrNoData ==
  Assessed =>
    /\ Cardinality(ChecksOf("OSHA")) = 1
    /\ StatusOf("OSHA") =
         IF MaxValidated(validatedAnalysis.voltages) > 500 \/ DOMAIN validatedAnalysis.voltages = {}
           THEN "warning" ELSE "compliant"

C12_Witness ==
  /\ Assessed
  /\ DOMAIN validatedAnalysis.voltages # {}
  /\ MaxValidated(validatedAnalysis.voltages) <= 500
  /\ StatusOf("OSHA") = "compliant"

HasHazardOfType(type) == \E k \in DOMAIN safety.hazards : safety.hazards[k].type = type

\* C13: the NFPA check is non_compliant exactly when the hazards of the same assessment
\* contain an arc_flash hazard
C13_NFPAFollowsArcFlash ==
  Assessed => (StatusOf("NFPA") = "non_compliant" <=> HasHazardOfType("arc_flash"))

\* the voltage the fallback chain gives a source: its own value, the metadata voltage, 230 V
chainVoltage(source, c) ==
  IF source.value > 0 THEN source.value
  ELSE IF c.metadata.voltage > 0 THEN c.metadata.voltage
  ELSE DefaultVoltage

\* C14: every power source, in a circuit with several sources too, gets its own value when
\* that is positive, otherwise the metadata voltage when that is positive, otherwise 230 V
C14_SourceVoltageChain ==
  analysis # Null =>
    \A k \in DOMAIN circuit.components :
      IsPowerSource(circuit.components[k]) =>
        Get(analysis.voltages, circuit.components[k].id) = chainVoltage(circuit.components[k], circuit)

\* the circuit with its components list reordered by the permutation p of the positions
reordered(c, p) == [c EXCEPT !.components = [k \in DOMAIN c.components |-> c.components[p[k]]]]

SameValues(a, b) ==
  /\ a.voltages = b.voltages
  /\ a.currents = b.currents
  /\ a.power = b.power
  /\ a.totalPower = b.totalPower

\* the permutations of 1..n that exchange two positions; every permutation is a product of them
Exchanges(n) == {[k \in 1..n |-> IF k = i THEN j ELSE IF k = j THEN i ELSE k] : i, j \in 1..n}

\* C15: a circuit and any reordering of its components list have the same voltages, currents,
\* power and totalPower; stated for the reorderings that exchange two components
C15_OrderOfComponentsIrrelevant ==
  analysis # Null =>
    \A p \in Exchanges(Len(circuit.components)) :
      SameValues(analyzeCircuit(reordered(circuit, p)), analysis)

------------------------------------------------------------------------------
(* Properties of the agents' effects on their arguments and on the history *)

\* C16: a call of assessSafety leaves the analysis it was given as it was offered, and the
\* circuit, the agent's result and the history unchanged; a call of the agent's analyzeCircuit
\* leaves the circuit unchanged
C16_InputsNotMutated ==
  [][/\ (pc = "analysed" /\ pc' = "assessed") =>
          /\ safetyInput' \in AnalysisInputs \cup MeasuredInputs
          /\ circuit' = circuit
          /\ agentResult' = agentResult
          /\ analysisHistory' = analysisHistory
     /\ (pc = "editing" /\ pc' = "analysed") => circuit' = circuit]_vars

\* an assessment whose validation changed a value: the validated copy differs from the input
C16_Witness ==
  /\ Assessed
  /\ safetyInput = agentResult
  /\ validatedAnalysis # safetyInput
  /\ validatedAnalysis.issues = safetyInput.issues

\* C17: the stored history is the sequence of the analyses analyzeCircuit returned since the
\* last clearHistory, in call order, whatever the caller did with the arrays
\* getAnalysisHistory gave it
C17_HistoryIsTheReturnedAnalyses ==
  client # Null => analysisHistory = client.returned

\* two different analyses are stored in call order, and the caller has changed the array it
\* was given
C17_Witness ==
  /\ client # Null
  /\ Len(analysisHistory) = 2
  /\ analysisHistory[1] # analysisHistory[2]
  /\ analysisHistory[2] = agentResult
  /\ client.copy # Null
  /\ Len(client.copy.entries) = 2
  /\ client.copy.entries # analysisHistory

------------------------------------------------------------------------------
(* Properties of the hazard detectors *)

HazardsWith(type, severity, componentId) ==
  {k \in DOMAIN safety.hazards :
     /\ safety.hazards[k].type = type
     /\ safety.hazards[k].severity = severity
     /\ safety.hazards[k].componentId = componentId}

\* C18: every component that declares a currentRating and whose current exceeds it has one
\* high overcurrent hazard tied to it, whatever the types of the power sources
C18_RatingExceededIsReported ==
  Assessed =>
    \A k \in DOMAIN circuit.components :
      LET component == circuit.components[k]
      IN (/\ component.properties.currentRating > 0
          /\ Get(validatedAnalysis.currents, component.id) > component.properties.currentRating)
         => Cardinality(HazardsWith("overcurrent", "high", component.id)) = 1

SourcesOfCircuit == {k \in DOMAIN circuit.components : IsPowerSource(circuit.components[k])}

\* the floor of the short-circuit test: 50 A when the supply is at most 50 V, 150 A otherwise
ShortCircuitFloor == IF metadataVoltageOf(circuit) <= 500 THEN 50000 ELSE 150000

\* C19 as stated: a power source has a critical short_circuit hazard exactly when its current
\* exceeds the floor and three times its voltage, and it never has two
C19_ShortCircuitIff ==
  Assessed =>
    \A k \in SourcesOfCircuit :
      LET id == circuit.components[k].id
          voltage == Get(validatedAnalysis.voltages, id)
          current == Get(validatedAnalysis.currents, id)
      IN /\ Cardinality(HazardsWith("short_circuit", "critical", id)) <= 1
         /\ HazardsWith("short_circuit", "critical", id) # {}
              <=> (current > ShortCircuitFloor /\ current > 300 * voltage)

\* C19 as amended: the same, for a source voltage of at most 600 V only, the source voltage
\* being the supply voltage when the analysis has none for the source
C19_ShortCircuitIffUpTo600V ==
  Assessed =>
    \A k \in SourcesOfCircuit :
      LET id == circuit.components[k].id
          voltage == IF Get(validatedAnalysis.voltages, id) # 0
                       THEN Get(validatedAnalysis.voltages, id) ELSE metadataVoltageOf(circuit)
          current == Get(validatedAnalysis.currents, id)
      IN /\ Cardinality(HazardsWith("short_circuit", "critical", id)) <= 1
         /\ HazardsWith("short_circuit", "critical", id) # {}
              <=> (voltage <= 6000 /\ current > ShortCircuitFloor /\ current > 300 * voltage)

\* a 60 A source on a 24 V supply is reported: above the 50 A floor, below the 150 A one
C19_Witness ==
  /\ Assessed
  /\ metadataVoltageOf(circuit) <= 500
  /\ \E k \in SourcesOfCircuit :
       /\ Get(validatedAnalysis.currents, circuit.components[k].id) = 60000
       /\ HazardsWith("short_circuit", "critical", circuit.components[k].id) # {}

\* C20: one medium ground_fault hazard exactly when the circuit has no ground component; no
\* high ground_fault hazard when a gfci or rccb is present; otherwise a high ground_fault
\* hazard for exactly the power sources, battery or socket, whose voltage is above 30 V, which
\* over the assumed 1000 ohm is a fault current above 30 mA
C20_GroundFaultHazards ==
  Assessed =>
    /\ Cardinality(HazardsWith("ground_fault", "medium", NoId)) =
         (IF HasType(circuit, {"ground"}) THEN 0 ELSE 1)
    /\ \A k \in SourcesOfCircuit :
         LET id == circuit.components[k].id
         IN HazardsWith("ground_fault", "high", id) # {}
              <=> (/\ ~HasType(circuit, {"gfci", "rccb"})
                   /\ Get(validatedAnalysis.voltages, id) > 300)

\* the components of an accessible type whose validated voltage is above 50 V
AccessibleAbove50V ==
  {k \in DOMAIN circuit.components :
     /\ circuit.components[k].type \in accessibleTypes
     /\ Get(validatedAnalysis.voltages, circuit.components[k].id) > 500}

\* C21: there is one high overvoltage hazard without componentId exactly when the circuit has
\* no gfci, rccb or afci and some accessible component is above 50 V; its description carries
\* the number of those components; no high overvoltage hazard is tied to a component for
\* touch voltage
C21_OneTouchVoltageHazard ==
  Assessed =>
    LET touch == HazardsWith("overvoltage", "high", NoId)
    IN /\ IF ~HasType(circuit, {"gfci", "rccb", "afci"}) /\ AccessibleAbove50V # {}
            THEN /\ Cardinality(touch) = 1
                 /\ \A k \in touch : safety.hazards[k].description[2] = Cardinality(AccessibleAbove50V)
            ELSE touch = {}
       /\ \A k \in DOMAIN safety.hazards :
            (safety.hazards[k].type = "overvoltage" /\ safety.hazards[k].severity = "high"
             /\ safety.hazards[k].componentId # NoId)
            => safety.hazards[k].id[1] = "component-overvoltage"

\* two accessible components above 50 V next to a component that is not accessible: one hazard
C21_Witness ==
  /\ Assessed
  /\ Cardinality(AccessibleAbove50V) = 2
  /\ Len(circuit.components) = 3
  /\ Cardinality(HazardsWith("overvoltage", "high", NoId)) = 1

ThermalHazardsOf(id) ==
  {k \in DOMAIN safety.hazards : safety.hazards[k].type = "thermal" /\ safety.hazards[k].componentId = id}

\* C22: power above the declared powerRating gives a high thermal hazard; without a
\* powerRating, a component off the high-power allow-list has a medium thermal hazard exactly
\* when its power is above 100 W (mcb, rccb, gfci, afci, spd, surge-protector, fuse) or 500 W
\* (other types), and a component on the allow-list has no thermal hazard
C22_ThermalHazards ==
  Assessed =>
    \A k \in DOMAIN circuit.components :
      LET component == circuit.components[k]
          power == Get(validatedAnalysis.power, component.id)
          rated == component.properties.powerRating # 0
          listed == component.type \in highPowerAppliances
          threshold == IF component.type \in {"mcb", "rccb", "gfci", "afci", "spd", "surge-protector", "fuse"}
                         THEN 1000 ELSE 5000
      IN /\ (rated /\ power > component.properties.powerRating)
              => HazardsWith("thermal", "high", component.id) # {}
         /\ (~rated /\ ~listed)
              => (HazardsWith("thermal", "medium", component.id) # {} <=> power > threshold)
         /\ (~rated /\ listed) => ThermalHazardsOf(component.id) = {}

\* C23: a power source has a critical arc_flash hazard exactly when its voltage is above 50 V
\* and the incident energy for a fault current of min(10 x current, 10000 A) and a clearing
\* time of 0.1 s is above 1.2 cal/cm2
C23_ArcFlashAtClearingTime100ms ==
  Assessed =>
    \A k \in SourcesOfCircuit :
      LET id == circuit.components[k].id
          voltage == Get(validatedAnalysis.voltages, id)
          faultCurrent == Min(10 * Get(validatedAnalysis.currents, id), 10000000)
      IN HazardsWith("arc_flash", "critical", id) # {}
           <=> (voltage > 500 /\ calculateArcFlashEnergy(voltage, faultCurrent, 100) > 120)

------------------------------------------------------------------------------
(* Properties of the recommendations *)

AppearsSafeLine == "Circuit appears safe - continue monitoring"

NonComplianceLine == "Address non-compliance issues before operation"

\* the strings in the order the claim gives: the mitigations in hazard order, the general
\* lines, the non-compliance line
ClaimedOrder ==
  [k \in DOMAIN safety.hazards |-> safety.hazards[k].mitigation]
  \o <<AppearsSafeLine, "Review all safety hazards before operation",
       "Consider adding protective devices (fuses, circuit breakers)", NonComplianceLine>>

FirstIn(seq, x) == CHOOSE k \in DOMAIN seq : seq[k] = x /\ \A j \in 1..(k - 1) : seq[j] # x

\* C24: the recommendations hold no string twice, hold the mitigation of every returned
\* hazard, stand in the order of first occurrence (mitigations in hazard order, general lines,
\* non-compliance line); the non-compliance line is there exactly when a check is
\* non_compliant and the appears-safe line exactly when there is no hazard
C24_Recommendations ==
  Assessed =>
    LET recs == safety.recommendations
    IN /\ \A i, j \in DOMAIN recs : i < j => recs[i] # recs[j]
       /\ \A k \in DOMAIN safety.hazards : safety.hazards[k].mitigation \in Range(recs)
       /\ Range(recs) \subseteq Range(ClaimedOrder)
       /\ \A i, j \in DOMAIN recs : i < j => FirstIn(ClaimedOrder, recs[i]) < FirstIn(ClaimedOrder, recs[j])
       /\ NonComplianceLine \in Range(recs)
            <=> \E k \in DOMAIN safety.compliance : safety.compliance[k].status = "non_compliant"
       /\ AppearsSafeLine \in Range(recs) <=> Len(safety.hazards) = 0

\* two returned hazards share a mitigation, which is recommended once, before the
\* non-compliance line
C24_Witness ==
  /\ Assessed
  /\ \E i, j \in DOMAIN safety.hazards :
       i < j /\ safety.hazards[i].mitigation = safety.hazards[j].mitigation
  /\ safety.recommendations[Len(safety.recommendations)] = NonComplianceLine

------------------------------------------------------------------------------
(* Properties of the junctions and of the resistors *)

PositionsOfType(types) == {k \in DOMAIN circuit.components : circuit.components[k].type \in types}

\* the appliances with a connection directly between them and the component of id `id`
AppliancesWiredTo(id) ==
  {k \in PositionsOfType(applianceTypes) :
     \E n \in DOMAIN circuit.connections :
       \/ circuit.connections[n].from = id /\ circuit.connections[n].to = circuit.components[k].id
       \/ circuit.connections[n].to = id /\ circuit.connections[n].from = circuit.components[k].id}

CurrentAt(k) == Get(analysis.currents, circuit.components[k].id)

SampleAsClaimed ==
  circuit = createSampleCircuit =>
    /\ Get(analysis.currents, "resistor-1") = 27
    /\ IssuesWith(analysis, <<"no-power-source">>) = {}

------------------------------------------------------------------------------
(* Properties of the pipeline and of the simulator *)

\* C27: when assessSafety is given the agent's own analysis of the circuit, every battery and
\* socket has current 0 and power 0 in it, the hazards hold no short_circuit hazard, no
\* arc_flash hazard and no critical overcurrent hazard of a source, and the NFPA check is
\* warning
C27_SourcesCarryNothing ==
  (Assessed /\ safetyInput = agentResult) =>
    /\ \A k \in SourcesOfCircuit :
         /\ Get(agentResult.currents, circuit.components[k].id) = 0
         /\ Get(agentResult.power, circuit.components[k].id) = 0
         /\ HazardsWith("overcurrent", "critical", circuit.components[k].id) = {}
    /\ ~HasHazardOfType("short_circuit")
    /\ ~HasHazardOfType("arc_flash")
    /\ StatusOf("NFPA") = "warning"

\* a battery feeds loads of more than 100 A in all
C27_Witness ==
  /\ Assessed
  /\ safetyInput = agentResult
  /\ \E k \in SourcesOfCircuit : circuit.components[k].type = "battery"
  /\ \E k \in PositionsOfType({"mcb"}) : Get(agentResult.currents, circuit.components[k].id) > 100000

\* C28: after every operation of the simulator the stored analysis is null, and then it was
\* null before, or it is the analysis of the circuit the simulator holds now; an import of
\* data without a circuit changes neither
C28_AnalysisNeverStale ==
  [][/\ analysis' # Null => analysis' = analyzeCircuit(circuit')
     /\ analysis' = Null => (analysis = Null /\ circuit' = circuit)
     /\ (client' # client /\ "circuit" \notin DOMAIN client'.imported)
          => (circuit' = circuit /\ analysis' = analysis)]_vars

\* an import without a circuit has just been made on a simulator that holds an analysis of a
\* circuit other than the sample
C28_Witness ==
  /\ client # Null
  /\ "circuit" \notin DOMAIN client.imported
  /\ analysis # Null
  /\ circuit # createSampleCircuit
  /\ Len(circuit.components) >= 2

\* every connection of c starts and ends at a component of c
EndpointsExist(c) ==
  \A n \in DOMAIN c.connections :
    /\ \E k \in DOMAIN c.components : c.components[k].id = c.connections[n].from
    /\ \E k \in DOMAIN c.components : c.components[k].id = c.connections[n].to

\* C29: removeComponent(id) leaves no component of that id and no connection from or to it,
\* and keeps every other component and connection, in order; a removeComponent or
\* removeConnection on a circuit whose connections all end at existing components gives such
\* a circuit again
C29_RemoveComponentKeepsEndpoints ==
  [][/\ \A componentId \in ComponentIdInputs :
          RemoveComponent(componentId) =>
            /\ circuit'.components = SelectSeq(circuit.components, LAMBDA x : x.id # componentId)
            /\ circuit'.connections =
                 SelectSeq(circuit.connections, LAMBDA conn : conn.from # componentId /\ conn.to # componentId)
            /\ \A k \in DOMAIN circuit'.components : circuit'.components[k].id # componentId
            /\ \A n \in DOMAIN circuit'.connections :
                 circuit'.connections[n].from # componentId /\ circuit'.connections[n].to # componentId
            /\ circuit'.metadata = circuit.metadata
     /\ ((\/ \E componentId \in ComponentIdInputs : RemoveComponent(componentId)
           \/ \E connectionId \in ConnectionIdInputs : RemoveConnection(connectionId))
          /\ EndpointsExist(circuit))
         => EndpointsExist(circuit')]_vars

\* the sample circuit after removeComponent("resistor-1"): three components and the one
\* connection that did not touch the resistor
C29_Witness ==
  /\ circuit.components = SelectSeq(createSampleCircuit.components, LAMBDA x : x.id # "resistor-1")
  /\ Len(circuit.connections) = 1
  /\ circuit.connections[1].id = "conn-3"
  /\ analysis # Null

\* the ids of the resistors of c
ResistorIds(c) == {c.components[k].id : k \in {j \in DOMAIN c.components : c.components[j].type = "resistor"}}

\* the resistors one connection away from a resistor of S, in either direction
LinkedStep(c, S) ==
  S \cup {id \in ResistorIds(c) :
           \E k \in DOMAIN c.connections :
             \/ c.connections[k].from \in S /\ c.connections[k].to = id
             \/ c.connections[k].to \in S /\ c.connections[k].from = id}

\* the resistors linked to a resistor of S by a path of connections through resistors only
RECURSIVE LinkedTo(_, _)
LinkedTo(c, S) == IF LinkedStep(c, S) = S THEN S ELSE LinkedTo(c, LinkedStep(c, S))

SeriesIssues(issues) == Filter(issues, LAMBDA x : x.id[1] = "series-group")

\* C30: series-group detection ends on every connection list and partitions the resistors:
\* every resistor is in exactly one group, two resistors share a group exactly when a path of
\* connections through resistors only links them, and the agent reports one info issue for
\* each group of two or more resistors and none for a single resistor
C30_SeriesGroupsPartition ==
  LET resistors == Filter(circuit.components, LAMBDA x : x.type = "resistor")
      groups == findSeriesGroups(circuit, resistors, {})
      places(id) == {<<g, k>> \in (DOMAIN groups) \X (1..Len(resistors)) :
                       k \in DOMAIN groups[g] /\ groups[g][k].id = id}
      idsOf(g) == {groups[g][k].id : k \in DOMAIN groups[g]}
      classes == {LinkedTo(circuit, {id}) : id \in ResistorIds(circuit)}
      reported == SeriesIssues(agentResult.issues)
  IN /\ \A g \in DOMAIN groups : groups[g] # <<>> /\ idsOf(g) \subseteq ResistorIds(circuit)
     /\ \A id \in ResistorIds(circuit) : Cardinality(places(id)) = 1
     /\ \A a, b \in ResistorIds(circuit) :
          (\E g \in DOMAIN groups : {a, b} \subseteq idsOf(g)) <=> b \in LinkedTo(circuit, {a})
     /\ agentResult # Null =>
          /\ \A k \in DOMAIN reported :
               /\ reported[k].type = "info"
               /\ Range(reported[k].message[2]) \in classes
               /\ Len(reported[k].message[2]) >= 2
               /\ Len(reported[k].message[2]) = Cardinality(Range(reported[k].message[2]))
          /\ \A cl \in classes :
               Cardinality({k \in DOMAIN reported : Range(reported[k].message[2]) = cl})
                 = IF Cardinality(cl) >= 2 THEN 1 ELSE 0

\* the agent analysed four resistors of which three are wired in a cycle, one of them to
\* itself too, and the fourth to an id that does not exist
C30_Witness ==
  /\ agentResult # Null
  /\ Cardinality(ResistorIds(circuit)) = 4
  /\ \E k \in DOMAIN circuit.connections : circuit.connections[k] = Wire("c2", "c2")
  /\ Len(SeriesIssues(agentResult.issues)) = 1
  /\ Range(SeriesIssues(agentResult.issues)[1].message[2]) = {"r0", "c1", "c2"}
====
